---- MODULE Spec2Model ----
(***************************************************************************)
(* A model of the colour core of codimate: the value type Color            *)
(* (src/color/model.rs) and the text parser (src/color/parse.rs).          *)
(*                                                                         *)
(* Every operation of the library is a pure function.  Each function is    *)
(* an operator below; a specification draws the inputs in its initial      *)
(* state and its actions apply the functions and store the result.         *)
(*                                                                         *)
(* Text is a sequence of one-character strings.  A ColorFloat (f32) is a   *)
(* fixed-point integer with ONE standing for 1.0; every arithmetic step    *)
(* of the source is one fixed-point step here, rounded to nearest.         *)
(***************************************************************************)
EXTENDS Integers, Sequences, FiniteSets, TLC

VARIABLES
    col,    \* the Color the operation is applied to (self / src)
    other,  \* the second Color operand (bg / dst / other)
    mode,   \* the BlendMode operand
    text,   \* the text operand (input of parse_color, output of Display)
    lch,    \* the [ColorFloat; 3] operand of from_oklch
    factor, \* the ColorFloat operand (amt of lighten_hsl and darken_hsl)
    op,     \* the operation applied last ("none" before any)
    res,    \* its result
    trace   \* what the operation did on the way (branch taken, loop count)

vars == <<col, other, mode, text, lch, factor, op, res, trace>>

----------------------------------------------------------------------------
(* Option and Result values *)

\* Option<T>: the empty sequence is None, <<v>> is Some(v)
None == <<>>

Some(v) == <<v>>

\* Result<T, ColorParseError>
Ok(v) == [tag |-> "Ok", val |-> <<v>>, err |-> "-"]

Err(e) == [tag |-> "Err", val |-> <<>>, err |-> e]

Unwrap(x) == x.val[1]

IsOk(x) == x.tag = "Ok"

IsErr(x, e) == x.tag = "Err" /\ x.err = e

ColorParseError ==
    {"Empty", "InvalidLength", "InvalidHex", "InvalidFunc", "OutOfRange", "InvalidToken"}

----------------------------------------------------------------------------
(* Color: four u8 channels *)

U8 == 0..255

NewColor(r, g, b, a) == [r |-> r, g |-> g, b |-> b, a |-> a]

from_rgba(rgba) == NewColor(rgba[1], rgba[2], rgba[3], rgba[4])

with_alpha(c, a) == [c EXCEPT !.a = a]

TRANSPARENT == NewColor(0, 0, 0, 0)

BLACK == NewColor(0, 0, 0, 255)

WHITE == NewColor(255, 255, 255, 255)

----------------------------------------------------------------------------
(* Characters *)

DigitSeq == <<"0", "1", "2", "3", "4", "5", "6", "7", "8", "9">>

UpperSeq == <<"A", "B", "C", "D", "E", "F", "G", "H", "I", "J", "K", "L", "M",
              "N", "O", "P", "Q", "R", "S", "T", "U", "V", "W", "X", "Y", "Z">>

LowerSeq == <<"a", "b", "c", "d", "e", "f", "g", "h", "i", "j", "k", "l", "m",
              "n", "o", "p", "q", "r", "s", "t", "u", "v", "w", "x", "y", "z">>

Range(s) == {s[i] : i \in 1..Len(s)}

Digits == Range(DigitSeq)

IndexOf(s, c) == CHOOSE i \in 1..Len(s) : s[i] = c

is_ascii_digit(c) == c \in Digits

DigitVal(c) == IndexOf(DigitSeq, c) - 1

\* char::is_whitespace on the characters of the model's alphabet
WhiteSpace == {" ", "\t", "\n", "\r", "\f"}

\* the whitespace the tokenizer skips
TokenSpace == {" ", "\t", "\n", "\r"}

\* to_ascii_lowercase_char without the change of case
keep_ascii_case(c) == c

to_ascii_lowercase_char(c) ==
    IF c \in Range(UpperSeq) THEN LowerSeq[IndexOf(UpperSeq, c)] ELSE c

to_ascii_lowercase(s) == [i \in 1..Len(s) |-> to_ascii_lowercase_char(s[i])]

RECURSIVE trim_start(_)
trim_start(s) ==
    IF s # <<>> /\ Head(s) \in WhiteSpace THEN trim_start(Tail(s)) ELSE s

RECURSIVE trim_end(_)
trim_end(s) ==
    IF s # <<>> /\ s[Len(s)] \in WhiteSpace
    THEN trim_end(SubSeq(s, 1, Len(s) - 1))
    ELSE s

trim(s) == trim_end(trim_start(s))

starts_with(s, p) == Len(s) >= Len(p) /\ SubSeq(s, 1, Len(p)) = p

ends_with(s, p) == Len(s) >= Len(p) /\ SubSeq(s, Len(s) - Len(p) + 1, Len(s)) = p

strip_prefix(s, p) ==
    IF starts_with(s, p) THEN Some(SubSeq(s, Len(p) + 1, Len(s))) ELSE None

strip_suffix(s, p) ==
    IF ends_with(s, p) THEN Some(SubSeq(s, 1, Len(s) - Len(p))) ELSE None

----------------------------------------------------------------------------
(* impl fmt::Display for Color: "#{:02X}{:02X}{:02X}{:02X}" *)

\* the same with {:02x}, the lowercase digits of into_hex8
Hex2X_Lowercase(b) ==
    LET HexLower == DigitSeq \o SubSeq(LowerSeq, 1, 6)
    IN  <<HexLower[(b \div 16) + 1], HexLower[(b % 16) + 1]>>

Hex2X(b) ==
    LET HexUpper == DigitSeq \o SubSeq(UpperSeq, 1, 6)
    IN  <<HexUpper[(b \div 16) + 1], HexUpper[(b % 16) + 1]>>

Display(c) == <<"#">> \o Hex2X(c.r) \o Hex2X(c.g) \o Hex2X(c.b) \o Hex2X(c.a)

----------------------------------------------------------------------------
(* parse_hex *)

\* the closure nibble: Option<u8>
nibble(c) ==
    IF c \in Digits THEN Some(DigitVal(c))
    ELSE IF c \in Range(SubSeq(LowerSeq, 1, 6)) THEN Some(IndexOf(LowerSeq, c) - 1 + 10)
    ELSE IF c \in Range(SubSeq(UpperSeq, 1, 6)) THEN Some(IndexOf(UpperSeq, c) - 1 + 10)
    ELSE None

\* nibble(c).ok_or(InvalidHex)
nibble_ok(c) == IF nibble(c) = None THEN Err("InvalidHex") ELSE Ok(nibble(c)[1])

\* the closure nibble2: Result<u8, ColorParseError>, h << 4 | l in u8
nibble2(hi, lo) ==
    IF ~IsOk(nibble_ok(hi)) THEN nibble_ok(hi)
    ELSE IF ~IsOk(nibble_ok(lo)) THEN nibble_ok(lo)
    ELSE Ok(((Unwrap(nibble_ok(hi)) * 16) % 256) + Unwrap(nibble_ok(lo)))

\* the ? operator over a sequence of results evaluated left to right:
\* the first error, or Ok of the values
Try(rs) ==
    IF \E i \in 1..Len(rs) : ~IsOk(rs[i])
    THEN rs[CHOOSE i \in 1..Len(rs) : ~IsOk(rs[i]) /\ \A j \in 1..(i - 1) : IsOk(rs[j])]
    ELSE Ok([i \in 1..Len(rs) |-> Unwrap(rs[i])])

\* the same with a short form read as the high nibble of each byte (r << 4)
parse_hex_NibbleShifted(hex) ==
    LET v == Try([i \in 1..Len(hex) |-> nibble_ok(hex[i])])
        hi(i) == Unwrap(v)[i] * 16
        pair(i) == Unwrap(v)[2 * i - 1] * 16 + Unwrap(v)[2 * i]
    IN  IF Len(hex) \notin {3, 4, 6, 8} THEN Err("InvalidLength")
        ELSE IF ~IsOk(v) THEN v
        ELSE IF Len(hex) = 3 THEN Ok(from_rgba(<<hi(1), hi(2), hi(3), 255>>))
        ELSE IF Len(hex) = 4 THEN Ok(from_rgba(<<hi(1), hi(2), hi(3), hi(4)>>))
        ELSE IF Len(hex) = 6 THEN Ok(from_rgba(<<pair(1), pair(2), pair(3), 255>>))
        ELSE Ok(from_rgba(<<pair(1), pair(2), pair(3), pair(4)>>))

parse_hex(hex) ==
    LET bytes == hex
        n == Len(bytes)
        mul17(x) == (x * 17) % 256
        short(k) == Try([i \in 1..k |-> nibble_ok(bytes[i])])
        long(k) == Try([i \in 1..k |-> nibble2(bytes[2 * i - 1], bytes[2 * i])])
    IN  IF n = 3 THEN
            IF ~IsOk(short(3)) THEN short(3)
            ELSE LET v == Unwrap(short(3))
                 IN  Ok(from_rgba(<<mul17(v[1]), mul17(v[2]), mul17(v[3]), 255>>))
        ELSE IF n = 4 THEN
            IF ~IsOk(short(4)) THEN short(4)
            ELSE LET v == Unwrap(short(4))
                 IN  Ok(from_rgba(<<mul17(v[1]), mul17(v[2]), mul17(v[3]), mul17(v[4])>>))
        ELSE IF n = 6 THEN
            IF ~IsOk(long(3)) THEN long(3)
            ELSE LET v == Unwrap(long(3))
                 IN  Ok(from_rgba(<<v[1], v[2], v[3], 255>>))
        ELSE IF n = 8 THEN
            IF ~IsOk(long(4)) THEN long(4)
            ELSE LET v == Unwrap(long(4))
                 IN  Ok(from_rgba(<<v[1], v[2], v[3], v[4]>>))
        ELSE Err("InvalidLength")

----------------------------------------------------------------------------
(* ColorFloat arithmetic.  A ColorFloat x is the integer nearest to        *)
(* x * ONE.  Products and quotients are computed in parts so that no       *)
(* intermediate value leaves the 32-bit integers of the model checker.     *)

\* the fixed-point representation of 1.0
ONE == 1000000

Abs(x) == IF x < 0 THEN -x ELSE x

Sgn(x) == IF x < 0 THEN -1 ELSE 1

Min(x, y) == IF x <= y THEN x ELSE y

Max(x, y) == IF x >= y THEN x ELSE y

\* f32::clamp
Clamp(x, lo, hi) == IF x < lo THEN lo ELSE IF x > hi THEN hi ELSE x

\* the ColorFloat of an integer (u8 as ColorFloat)
Fx(n) == n * ONE

\* a * b for a, b >= 0
MulU(a, b) ==
    LET a1 == a \div 1000
        a0 == a % 1000
        b1 == b \div 1000
        b0 == b % 1000
    IN  a1 * b1 + ((a1 * b0 + a0 * b1 + ((a0 * b0) \div 1000) + 500) \div 1000)

\* a * b
Mul(a, b) == Sgn(a) * Sgn(b) * MulU(Abs(a), Abs(b))

\* the k decimal digits of r / b after the point (0 <= r < b), rounded to nearest
RECURSIVE FracDigits(_, _, _)
FracDigits(r, b, k) ==
    IF k = 0 THEN (IF 2 * r >= b THEN 1 ELSE 0)
    ELSE ((r * 10) \div b) * (10 ^ (k - 1)) + FracDigits((r * 10) % b, b, k - 1)

\* a / b for a >= 0, b > 0
DivU(a, b) ==
    IF b % ONE = 0
    THEN (a + ((b \div ONE) \div 2)) \div (b \div ONE)
    ELSE (a \div b) * ONE + FracDigits(a % b, b, 6)

\* a / b (b # 0)
Div(a, b) == Sgn(a) * Sgn(b) * DivU(Abs(a), Abs(b))

\* the values of a ColorFloat that are no numbers: infinity, and NaN
INF == 2000000000

NaN == -2000000001

IsFinite(x) == Abs(x) < INF

\* a / b where b may be 0: x / 0 is an infinity and 0 / 0 is NaN
DivF(a, b) ==
    IF b # 0 THEN Div(a, b)
    ELSE IF a = 0 THEN NaN
    ELSE IF a > 0 THEN INF
    ELSE -INF

\* x + q where q may be no number
AddF(x, q) == IF IsFinite(q) THEN x + q ELSE q

\* f32::floor as an integer
Floor(x) == x \div ONE

\* f32::round as an integer: half away from zero
Round(x) == Sgn(x) * ((Abs(x) + (ONE \div 2)) \div ONE)

\* `as u8` of a float with the integer value n: the cast saturates
AsU8(n) == Clamp(n, 0, 255)

\* (x * 255.0 + 0.5).floor() as u8
Quantize(x) == AsU8(Floor(Mul(x, Fx(255)) + (ONE \div 2)))

\* x^n for a natural n, by n - 1 products
RECURSIVE PowN(_, _)
PowN(x, n) == IF n = 0 THEN ONE ELSE IF n = 1 THEN x ELSE Mul(PowN(x, n - 1), x)

\* the y in lo..hi with y^n nearest to x, where lo^n <= x < hi^n
RECURSIVE RootSearch(_, _, _, _)
RootSearch(x, n, lo, hi) ==
    IF hi - lo <= 1
    THEN (IF x - PowN(lo, n) <= PowN(hi, n) - x THEN lo ELSE hi)
    ELSE LET mid == (lo + hi) \div 2
         IN  IF PowN(mid, n) <= x
             THEN RootSearch(x, n, mid, hi)
             ELSE RootSearch(x, n, lo, mid)

\* the n-th root of x >= 0
RootN(x, n) == IF x = 0 THEN 0 ELSE RootSearch(x, n, 0, Max(x, ONE) + 1)

\* f32::sqrt (x >= 0)
Sqrt(x) == RootN(x, 2)

\* f32::cbrt
Cbrt(x) == Sgn(x) * RootN(Abs(x), 3)

\* x.powf(2.4) = x^2 * (x^2)^(1/5)   (x >= 0)
Powf_2_4(x) == Mul(Mul(x, x), RootN(Mul(x, x), 5))

\* x.powf(1.0 / 2.4) = (x^(1/12))^5, the twelfth root as cbrt(sqrt(sqrt(x)))   (x >= 0)
Powf_1_2_4(x) == PowN(Cbrt(Sqrt(Sqrt(x))), 5)

----------------------------------------------------------------------------
(* str::parse::<u16>() and str::parse::<ColorFloat>() on the texts the     *)
(* parser hands them: signs, digits and '.'.  A text with any other        *)
(* character (an exponent, inf, nan) is drawn by no specification.         *)

AllDigits(s) == \A i \in 1..Len(s) : is_ascii_digit(s[i])

\* the value of a digit string, saturating above Cap
DecCap == 1000000000

RECURSIVE DecVal(_, _)
DecVal(s, acc) ==
    IF s = <<>> THEN acc
    ELSE DecVal(Tail(s), IF acc >= DecCap \div 10 THEN DecCap ELSE acc * 10 + DigitVal(Head(s)))

\* Option<u16>: an optional '+', then one digit or more, at most 65535
parse_u16(s) ==
    LET body == IF s # <<>> /\ Head(s) = "+" THEN Tail(s) ELSE s
    IN  IF body = <<>> \/ ~AllDigits(body) THEN None
        ELSE IF DecVal(body, 0) > 65535 THEN None
        ELSE Some(DecVal(body, 0))

\* the first six decimals of a fraction digit string, as millionths
FracVal(s) ==
    LET d(i) == IF i <= Len(s) THEN DigitVal(s[i]) ELSE 0
    IN  d(1) * 100000 + d(2) * 10000 + d(3) * 1000 + d(4) * 100 + d(5) * 10 + d(6)

\* Option<ColorFloat>: an optional sign, digits, an optional '.' and digits,
\* with a digit somewhere.  The value is [neg, int, frac]: sign, integer
\* part and fraction in millionths (the integer part may exceed the
\* fixed-point range, so it is kept apart until the range is checked).
parse_float(s) ==
    LET signed == s # <<>> /\ Head(s) \in {"+", "-"}
        body == IF signed THEN Tail(s) ELSE s
        dots == {i \in 1..Len(body) : body[i] = "."}
        dot == IF dots = {} THEN Len(body) + 1 ELSE CHOOSE i \in dots : TRUE
        ip == SubSeq(body, 1, dot - 1)
        fp == SubSeq(body, dot + 1, Len(body))
    IN  IF Cardinality(dots) > 1 \/ ~AllDigits(ip) \/ ~AllDigits(fp) THEN None
        ELSE IF ip = <<>> /\ fp = <<>> THEN None
        ELSE Some([neg |-> signed /\ Head(s) = "-", int |-> DecVal(ip, 0), frac |-> FracVal(fp)])

\* (lo..=hi).contains(&v) for integers 0 <= lo <= hi
Contains(lo, hi, v) ==
    IF v.neg
    THEN lo = 0 /\ v.int = 0 /\ v.frac = 0
    ELSE v.int >= lo /\ (v.int < hi \/ (v.int = hi /\ v.frac = 0))

\* the ColorFloat of a parsed value within the fixed-point range
FloatOf(v) == (IF v.neg THEN -1 ELSE 1) * (v.int * ONE + v.frac)

----------------------------------------------------------------------------
(* tokenize *)

Number(s) == [kind |-> "Number", lexeme |-> s]

Slash == [kind |-> "Slash", lexeme |-> <<>>]

Comma == [kind |-> "Comma", lexeme |-> <<>>]

\* while i < bytes.len() && bytes[i].is_ascii_digit() { i += 1 }   (i is 1-based)
RECURSIVE SkipDigits(_, _)
SkipDigits(bytes, i) ==
    IF i <= Len(bytes) /\ is_ascii_digit(bytes[i]) THEN SkipDigits(bytes, i + 1) ELSE i

\* the index after a number that may go on with a second point and its digits
NumberEnd_SecondPoint(bytes, start) ==
    LET i1 == IF bytes[start] \in {"+", "-"} THEN start + 1 ELSE start
        i2 == SkipDigits(bytes, i1)
        i3 == IF i2 <= Len(bytes) /\ bytes[i2] = "." THEN SkipDigits(bytes, i2 + 1) ELSE i2
        i4 == IF i3 <= Len(bytes) /\ bytes[i3] = "." THEN SkipDigits(bytes, i3 + 1) ELSE i3
    IN  IF i4 <= Len(bytes) /\ bytes[i4] = "%" THEN i4 + 1 ELSE i4

\* the index after the number that starts at start
NumberEnd(bytes, start) ==
    LET i1 == IF bytes[start] \in {"+", "-"} THEN start + 1 ELSE start
        i2 == SkipDigits(bytes, i1)
        i3 == IF i2 <= Len(bytes) /\ bytes[i2] = "." THEN SkipDigits(bytes, i2 + 1) ELSE i2
    IN  IF i3 <= Len(bytes) /\ bytes[i3] = "%" THEN i3 + 1 ELSE i3

\* one iteration of a scan loop that pushes a slash or a comma and stays on it
TokenStep_SeparatorNotConsumed(bytes, i, tokens) ==
    IF bytes[i] \in TokenSpace THEN
        [i |-> i + 1, tokens |-> tokens, err |-> FALSE]
    ELSE IF bytes[i] \in {"+", "-", "."} \cup Digits THEN
        [i |-> NumberEnd(bytes, i),
         tokens |-> Append(tokens, Number(SubSeq(bytes, i, NumberEnd(bytes, i) - 1))),
         err |-> FALSE]
    ELSE IF bytes[i] \in {"/", ","} THEN
        [i |-> i, tokens |-> Append(tokens, IF bytes[i] = "/" THEN Slash ELSE Comma),
         err |-> FALSE]
    ELSE [i |-> i, tokens |-> tokens, err |-> TRUE]

\* one iteration of a scan loop that skips every byte that starts no token
TokenStep_UnknownSkipped(bytes, i, tokens) ==
    IF bytes[i] \in {"+", "-", "."} \cup Digits THEN
        [i |-> NumberEnd(bytes, i),
         tokens |-> Append(tokens, Number(SubSeq(bytes, i, NumberEnd(bytes, i) - 1))),
         err |-> FALSE]
    ELSE IF bytes[i] = "/" THEN
        [i |-> i + 1, tokens |-> Append(tokens, Slash), err |-> FALSE]
    ELSE IF bytes[i] = "," THEN
        [i |-> i + 1, tokens |-> Append(tokens, Comma), err |-> FALSE]
    ELSE [i |-> i + 1, tokens |-> tokens, err |-> FALSE]

\* one iteration of the scan loop at index i: the next index and the tokens,
\* or the error
TokenStep(bytes, i, tokens) ==
    IF bytes[i] \in TokenSpace THEN
        [i |-> i + 1, tokens |-> tokens, err |-> FALSE]
    ELSE IF bytes[i] \in {"+", "-", "."} \cup Digits THEN
        IF NumberEnd(bytes, i) = i
        THEN [i |-> i, tokens |-> tokens, err |-> TRUE]
        ELSE [i |-> NumberEnd(bytes, i),
              tokens |-> Append(tokens, Number(SubSeq(bytes, i, NumberEnd(bytes, i) - 1))),
              err |-> FALSE]
    ELSE IF bytes[i] = "/" THEN
        [i |-> i + 1, tokens |-> Append(tokens, Slash), err |-> FALSE]
    ELSE IF bytes[i] = "," THEN
        [i |-> i + 1, tokens |-> Append(tokens, Comma), err |-> FALSE]
    ELSE [i |-> i, tokens |-> tokens, err |-> TRUE]

RECURSIVE TokenLoop(_, _, _)
TokenLoop(bytes, i, tokens) ==
    IF i > Len(bytes) THEN Ok(tokens)
    ELSE LET st == TokenStep(bytes, i, tokens)
         IN  IF st.err THEN Err("InvalidToken") ELSE TokenLoop(bytes, st.i, st.tokens)

tokenize(input) == TokenLoop(input, 1, <<>>)

----------------------------------------------------------------------------
(* parse_rgb_component, parse_alpha_component *)

\* (v / 100.0 * 255.0).round().clamp(0.0, 255.0) as u8
PercentToU8(v) == AsU8(Clamp(Round(Mul(Div(FloatOf(v), Fx(100)), Fx(255))), 0, 255))

\* the same with a value outside the range clamped into it
parse_rgb_component_Clamped(num) ==
    LET is_percent == num # <<>> /\ num[Len(num)] = "%"
        core == IF is_percent THEN SubSeq(num, 1, Len(num) - 1) ELSE num
        v == parse_float(core)
    IN  IF v = None THEN Err("InvalidToken")
        ELSE IF ~Contains(0, IF is_percent THEN 100 ELSE 255, v[1])
            THEN Ok(IF v[1].neg THEN 0 ELSE 255)
        ELSE IF is_percent THEN Ok(PercentToU8(v[1]))
        ELSE Ok(AsU8(Clamp(Round(FloatOf(v[1])), 0, 255)))

parse_rgb_component(num) ==
    LET is_percent == num # <<>> /\ num[Len(num)] = "%"
        core == IF is_percent THEN SubSeq(num, 1, Len(num) - 1) ELSE num
        v == parse_float(core)
    IN  IF is_percent THEN
            IF v = None THEN Err("InvalidToken")
            ELSE IF ~Contains(0, 100, v[1]) THEN Err("OutOfRange")
            ELSE Ok(PercentToU8(v[1]))
        ELSE IF parse_u16(core) # None THEN
            IF parse_u16(core)[1] > 255 THEN Err("OutOfRange") ELSE Ok(parse_u16(core)[1])
        ELSE IF v = None THEN Err("InvalidToken")
        ELSE IF ~Contains(0, 255, v[1]) THEN Err("OutOfRange")
        ELSE Ok(AsU8(Clamp(Round(FloatOf(v[1])), 0, 255)))

parse_alpha_component(num) ==
    LET is_percent == num # <<>> /\ num[Len(num)] = "%"
        core == IF is_percent THEN SubSeq(num, 1, Len(num) - 1) ELSE num
        v == parse_float(core)
    IN  IF is_percent THEN
            IF v = None THEN Err("InvalidToken")
            ELSE IF ~Contains(0, 100, v[1]) THEN Err("OutOfRange")
            ELSE Ok(PercentToU8(v[1]))
        ELSE IF v # None /\ Contains(0, 1, v[1]) THEN
            Ok(AsU8(Clamp(Round(Mul(FloatOf(v[1]), Fx(255))), 0, 255)))
        ELSE IF parse_u16(core) = None THEN Err("InvalidToken")
        ELSE IF parse_u16(core)[1] > 255 THEN Err("OutOfRange")
        ELSE Ok(parse_u16(core)[1])

----------------------------------------------------------------------------
(* parse_css_rgb *)

\* it.next() at position k of the token vector: Option<token>
NextTok(tokens, k) == IF k <= Len(tokens) THEN Some(tokens[k]) ELSE None

IsNumber(t) == t # None /\ t[1].kind = "Number"

IsKind(t, kind) == t # None /\ t[1].kind = kind

\* the outcome of a grammar loop: the component and alpha lexemes, or the error
Parsed(comps, alpha) == [err |-> "-", comps |-> comps, alpha |-> alpha]

Failed(e) == [err |-> e, comps |-> <<>>, alpha |-> None]

\* the legacy loop with the iterator at k
RECURSIVE LegacyLoop(_, _, _)
LegacyLoop(tokens, k, comps) ==
    LET t1 == NextTok(tokens, k)
        t2 == NextTok(tokens, k + 1)
        t3 == NextTok(tokens, k + 2)
        t4 == NextTok(tokens, k + 3)
    IN  IF t1 = None THEN Parsed(comps, None)
        ELSE IF ~IsNumber(t1) THEN Failed("InvalidFunc")
        ELSE IF IsKind(t2, "Comma") THEN LegacyLoop(tokens, k + 2, Append(comps, t1[1].lexeme))
        ELSE IF IsKind(t2, "Slash") THEN
            IF ~IsNumber(t3) THEN Failed("InvalidToken")
            ELSE IF t4 # None THEN Failed("InvalidFunc")
            ELSE Parsed(Append(comps, t1[1].lexeme), Some(t3[1].lexeme))
        ELSE IF t2 = None THEN Parsed(Append(comps, t1[1].lexeme), None)
        ELSE Failed("InvalidToken")

\* the modern loop without the two tests of an alpha already read
RECURSIVE ModernLoop_AlphaNotGuarded(_, _, _, _)
ModernLoop_AlphaNotGuarded(tokens, k, comps, alpha) ==
    LET token == NextTok(tokens, k)
        next == NextTok(tokens, k + 1)
    IN  IF token = None THEN Parsed(comps, alpha)
        ELSE IF IsNumber(token) THEN
            ModernLoop_AlphaNotGuarded(tokens, k + 1, Append(comps, token[1].lexeme), alpha)
        ELSE IF IsKind(token, "Slash") THEN
            IF ~IsNumber(next) THEN Failed("InvalidToken")
            ELSE ModernLoop_AlphaNotGuarded(tokens, k + 2, comps, Some(next[1].lexeme))
        ELSE Failed("InvalidToken")

\* the modern loop with the iterator at k
RECURSIVE ModernLoop(_, _, _, _)
ModernLoop(tokens, k, comps, alpha) ==
    LET token == NextTok(tokens, k)
        next == NextTok(tokens, k + 1)
    IN  IF token = None THEN Parsed(comps, alpha)
        ELSE IF IsNumber(token) THEN
            IF alpha # None THEN Failed("InvalidFunc")
            ELSE ModernLoop(tokens, k + 1, Append(comps, token[1].lexeme), alpha)
        ELSE IF IsKind(token, "Slash") THEN
            IF alpha # None THEN Failed("InvalidFunc")
            ELSE IF ~IsNumber(next) THEN Failed("InvalidToken")
            ELSE ModernLoop(tokens, k + 2, comps, Some(next[1].lexeme))
        ELSE Failed("InvalidToken")

parse_css_rgb(args) ==
    LET toks == tokenize(args)
        tokens == Unwrap(toks)
        has_comma == \E i \in 1..Len(tokens) : tokens[i].kind = "Comma"
        g == IF has_comma THEN LegacyLoop(tokens, 1, <<>>) ELSE ModernLoop(tokens, 1, <<>>, None)
        rgb == Try(<<parse_rgb_component(g.comps[1]), parse_rgb_component(g.comps[2]),
                     parse_rgb_component(g.comps[3])>>)
        a == IF g.alpha = None THEN Ok(255) ELSE parse_alpha_component(g.alpha[1])
    IN  IF ~IsOk(toks) THEN toks
        ELSE IF tokens = <<>> THEN Err("InvalidFunc")
        ELSE IF g.err # "-" THEN Err(g.err)
        ELSE IF Len(g.comps) # 3 THEN Err("InvalidFunc")
        ELSE IF ~IsOk(rgb) THEN rgb
        ELSE IF ~IsOk(a) THEN a
        ELSE Ok(from_rgba(<<Unwrap(rgb)[1], Unwrap(rgb)[2], Unwrap(rgb)[3], Unwrap(a)>>))

----------------------------------------------------------------------------
(* parse_css_rgba *)

\* str::split(','): the pieces between the commas
RECURSIVE Split(_, _)
Split(s, cur) ==
    IF s = <<>> THEN <<cur>>
    ELSE IF Head(s) = "," THEN <<cur>> \o Split(Tail(s), <<>>)
    ELSE Split(Tail(s), Append(cur, Head(s)))

\* s.parse::<u16>().ok().filter(|&v| v <= 255).ok_or(OutOfRange)
parse_u8_strict(s) ==
    IF parse_u16(s) = None \/ parse_u16(s)[1] > 255 THEN Err("OutOfRange") ELSE Ok(parse_u16(s)[1])

\* f.clamp(0.0, 1.0) of a parsed value
Clamp01(v) == IF v.neg THEN 0 ELSE IF v.int >= 1 THEN ONE ELSE v.frac

parse_css_rgba(args) ==
    LET pieces == Split(args, <<>>)
        nums == [i \in 1..Len(pieces) |-> trim(pieces[i])]
        rgb == Try(<<parse_u8_strict(nums[1]), parse_u8_strict(nums[2]), parse_u8_strict(nums[3])>>)
        f == parse_float(nums[4])
        a == IF f # None THEN Ok(Quantize(Clamp01(f[1]))) ELSE parse_u8_strict(nums[4])
    IN  IF Len(nums) # 4 THEN Err("InvalidFunc")
        ELSE IF ~IsOk(rgb) THEN rgb
        ELSE IF ~IsOk(a) THEN a
        ELSE Ok(from_rgba(<<Unwrap(rgb)[1], Unwrap(rgb)[2], Unwrap(rgb)[3], Unwrap(a)>>))

----------------------------------------------------------------------------
(* parse_color *)

\* strip_prefix(open).and_then(|x| x.strip_suffix(')'))
FuncArgs(lower, open) ==
    IF strip_prefix(lower, open) = None THEN None
    ELSE strip_suffix(strip_prefix(lower, open)[1], <<")">>)

parse_color(s0) ==
    LET s == trim(s0)
        lower == to_ascii_lowercase(s)
    IN  IF s = <<>> THEN Err("Empty")
        ELSE IF strip_prefix(s, <<"#">>) # None THEN parse_hex(trim(strip_prefix(s, <<"#">>)[1]))
        ELSE IF FuncArgs(lower, <<"r", "g", "b", "(">>) # None
            THEN parse_css_rgb(FuncArgs(lower, <<"r", "g", "b", "(">>)[1])
        ELSE IF FuncArgs(lower, <<"r", "g", "b", "a", "(">>) # None
            THEN parse_css_rgba(FuncArgs(lower, <<"r", "g", "b", "a", "(">>)[1])
        ELSE Err("InvalidFunc")

----------------------------------------------------------------------------
(* The text specification: a Color is formatted and parsed back, or a      *)
(* text is parsed.                                                         *)

\* res before any operation
NoResult == [tag |-> "None", val |-> <<>>, err |-> "-"]

\* the decimal text of a natural number
RECURSIVE Dec(_)
Dec(n) == IF n < 10 THEN <<DigitSeq[n + 1]>> ELSE Dec(n \div 10) \o <<DigitSeq[(n % 10) + 1]>>

Pct(n) == Dec(n) \o <<"%">>

Point(n, f) == Dec(n) \o <<".">> \o Dec(f)

\* channel values next to which one channel runs over all bytes
EdgeBytes == {0, 255}

\* the Colors formatted: every byte in every channel position, and some
\* with four different channels
HexColors ==
    {NewColor(v, x, y, z) : v \in U8, x \in EdgeBytes, y \in EdgeBytes, z \in EdgeBytes}
    \cup {NewColor(x, v, y, z) : v \in U8, x \in EdgeBytes, y \in EdgeBytes, z \in EdgeBytes}
    \cup {NewColor(x, y, v, z) : v \in U8, x \in EdgeBytes, y \in EdgeBytes, z \in EdgeBytes}
    \cup {NewColor(x, y, z, v) : v \in U8, x \in EdgeBytes, y \in EdgeBytes, z \in EdgeBytes}
    \cup {NewColor(171, 205, 239, 18), NewColor(1, 35, 69, 103), NewColor(254, 220, 186, 152)}

\* the lexemes of the colour components and of the alpha in the texts parsed
RedLexemes == {Dec(255), Pct(50)}

GreenLexemes == {Dec(0), Point(12, 5)}

BlueLexemes == {Dec(7), Pct(100)}

AlphaLexemes ==
    {Dec(0), Dec(1), Point(0, 5), Point(0, 25), Dec(128), Dec(255), Pct(50), Pct(100),
     Point(1, 5), Dec(256), Pct(101), <<"-">> \o Point(0, 5)}

FuncNames == {<<"r", "g", "b">>, <<"r", "g", "b", "a">>}

Call(name, args) == name \o <<"(">> \o args \o <<")">>

\* r,g,b   r,g,b,a   r,g,b/a   r g b   r g b / a
Legacy3(r, g, b) == r \o <<",">> \o g \o <<",">> \o b

Legacy4(r, g, b, a) == Legacy3(r, g, b) \o <<",">> \o a

LegacySlash(r, g, b, a) == Legacy3(r, g, b) \o <<"/">> \o a

Modern3(r, g, b) == r \o <<" ">> \o g \o <<" ">> \o b

Modern4(r, g, b, a) == Modern3(r, g, b) \o <<" ", "/", " ">> \o a

ArgLists ==
    UNION {{Legacy3(r, g, b), Modern3(r, g, b)} \cup
           UNION {{Legacy4(r, g, b, a), LegacySlash(r, g, b, a), Modern4(r, g, b, a)} :
                  a \in AlphaLexemes} :
           r \in RedLexemes, g \in GreenLexemes, b \in BlueLexemes}

CssTexts == {Call(name, args) : name \in FuncNames, args \in ArgLists}

\* the hex digits in both cases
HexDigitChars == Digits \cup Range(SubSeq(LowerSeq, 1, 6)) \cup Range(SubSeq(UpperSeq, 1, 6))

\* digits next to which one digit runs over all hex digits
EdgeDigits == {"0", "9", "a", "F"}

\* the digit strings of length n with every hex digit in every position
ShortHex(n) ==
    UNION {{[e EXCEPT ![k] = d] : d \in HexDigitChars, k \in 1..n} : e \in [1..n -> EdgeDigits]}

\* each digit written twice
Duplicate(s) == [i \in 1..(2 * Len(s)) |-> s[(i + 1) \div 2]]

\* #RGB, #RGBA and their expansions #RRGGBB, #RRGGBBAA
HexTexts ==
    UNION {{<<"#">> \o s, <<"#">> \o Duplicate(s)} : s \in ShortHex(3) \cup ShortHex(4)}

\* characters that are no hex digits
BadChars == {"g", "G", "x", " ", "-", "#"}

\* longest text after '#', one more than the longest form
MaxHexLen == 9

HexCycle == <<"a", "F", "0", "9", "b", "E", "1", "8", "c">>

\* n hex digits
HexBase(n) == [i \in 1..n |-> HexCycle[((i - 1) % Len(HexCycle)) + 1]]

\* '#' and 0..MaxHexLen hex digits, none or one of them replaced by another character
GarbledHexTexts ==
    UNION {{<<"#">> \o HexBase(n)} \cup
           {<<"#">> \o [HexBase(n) EXCEPT ![k] = c] : k \in 1..n, c \in BadChars} :
           n \in 0..MaxHexLen}

\* longest text of whitespace only
MaxBlank == 3

\* the texts of 0..MaxBlank whitespace characters
BlankTexts == UNION {[1..n -> WhiteSpace] : n \in 0..MaxBlank}

\* texts without a '#' and without a complete rgb( ) or rgba( ) wrapper, and the empty wrappers
UnwrappedTexts ==
    {<<"r", "g", "b">>,
     <<"r", "g", "b", "(", "1", ",", "2", ",", "3">>,
     <<"r", "g", "b", " ", "1", ",", "2", ",", "3", ")">>,
     <<"r", "g", "(", "1", ",", "2", ",", "3", ")">>,
     <<"h", "s", "l", "(", "0", ",", "0", ",", "0", ")">>,
     <<"r", "e", "d">>,
     <<"r", "g", "b", " ", "(", "1", ",", "2", ",", "3", ")">>,
     <<"(", "1", ",", "2", ",", "3", ")">>,
     <<"1", ",", "2", ",", "3">>,
     <<"r", "g", "b", "x", "(", "1", ",", "2", ",", "3", ")">>,
     <<"a", "r", "g", "b", "(", "1", ",", "2", ",", "3", ")">>,
     <<")">>,
     <<"r", "g", "b", ")">>,
     <<"r", "g", "b", "a", "(">>,
     <<"a", "#", "f", "f", "f">>,
     <<"r", "g", "b", "(", ")">>,
     <<"r", "g", "b", "a", "(", ")">>}

\* a function name (or none) and the rest of a text
DispatchBases ==
    {[name |-> <<"r", "g", "b">>, rest |-> <<"(", "2", "5", "5", ",", "0", ",", "7", ")">>],
     [name |-> <<"r", "g", "b">>, rest |-> <<"(", "5", "0", "%", " ", "1", "2", ".", "5", " ", "7", " ", "/", " ", "5", "0", "%", ")">>],
     [name |-> <<"r", "g", "b">>, rest |-> <<"(", "2", "5", "6", ",", "0", ",", "0", ")">>],
     [name |-> <<"r", "g", "b", "a">>, rest |-> <<"(", "2", "5", "5", ",", "0", ",", "7", ",", "0", ".", "5", ")">>],
     [name |-> <<"r", "g", "b", "a">>, rest |-> <<"(", "2", "5", "5", " ", "0", " ", "7", ")">>],
     [name |-> <<>>, rest |-> <<"#", "a", "F", "0", "9">>],
     [name |-> <<>>, rest |-> <<"#", "1", "2">>],
     [name |-> <<"h", "s", "l">>, rest |-> <<"(", "0", ",", "0", ",", "0", ")">>]}

to_ascii_uppercase_char(c) ==
    IF c \in Range(LowerSeq) THEN UpperSeq[IndexOf(LowerSeq, c)] ELSE c

\* a name with every choice of letter case
CaseVariants(name) ==
    {[i \in 1..Len(name) |-> IF i \in S THEN to_ascii_uppercase_char(name[i]) ELSE name[i]] :
     S \in SUBSET (1..Len(name))}

LeadPads == {<<>>, <<" ">>, <<"\t", "\n">>}

TrailPads == {<<>>, <<" ">>, <<"\r", " ">>}

\* the texts of a base with the name in any case and whitespace around
Variants(b) ==
    {l \o n \o b.rest \o t : l \in LeadPads, n \in CaseVariants(b.name), t \in TrailPads}

DispatchTexts == BlankTexts \cup UnwrappedTexts \cup UNION {Variants(b) : b \in DispatchBases}

\* colour-component lexemes with the byte each stands for, -1 for a value
\* outside its range: every integer of 0..255, every whole percentage of
\* 0..100, decimals, signs, and values beyond either end of the range
ComponentTable ==
    {[lex |-> Dec(n), val |-> n] : n \in U8}
    \cup {[lex |-> Pct(n), val |-> (255 * n + 50) \div 100] : n \in 0..100}
    \cup {[lex |-> Point(12, 5), val |-> 13], [lex |-> Point(0, 5), val |-> 1],
          [lex |-> Point(254, 5), val |-> 255], [lex |-> Point(255, 0), val |-> 255],
          [lex |-> Point(127, 49), val |-> 127], [lex |-> <<".", "5">>, val |-> 1],
          [lex |-> <<"5", ".">>, val |-> 5], [lex |-> <<"-", "0">>, val |-> 0],
          [lex |-> <<"+">> \o Dec(255), val |-> 255],
          [lex |-> Point(12, 5) \o <<"%">>, val |-> 32],
          [lex |-> Point(99, 9) \o <<"%">>, val |-> 255],
          [lex |-> Point(0, 2) \o <<"%">>, val |-> 1]}
    \cup {[lex |-> l, val |-> -1] :
          l \in {Dec(256), Dec(1000), Dec(65535), Dec(65536), Dec(70000), Dec(99999) \o Dec(999999),
                 <<"-">> \o Dec(1), Point(255, 4), Point(300, 5), <<"-">> \o Point(0, 4),
                 <<"+">> \o Dec(300), Pct(101), Pct(1000), Point(100, 5) \o <<"%">>,
                 <<"-">> \o Pct(1)}}

ComponentLexemes == {e.lex : e \in ComponentTable}

\* components that stand in every position next to every other of them
MixedLexemes ==
    {Dec(0), Dec(255), Pct(50), Point(254, 5), Dec(256), <<"-">> \o Dec(1), Pct(101), Point(255, 4)}

\* the component triples: every lexeme in every position, and the mixed triples
ComponentTriples ==
    {<<c, Dec(0), Dec(7)>> : c \in ComponentLexemes}
    \cup {<<Dec(255), c, Dec(7)>> : c \in ComponentLexemes}
    \cup {<<Dec(255), Dec(0), c>> : c \in ComponentLexemes}
    \cup (MixedLexemes \X MixedLexemes \X MixedLexemes)

ComponentTexts ==
    UNION {{Call(<<"r", "g", "b">>, Legacy3(t[1], t[2], t[3])),
            Call(<<"r", "g", "b">>, Modern3(t[1], t[2], t[3]))} : t \in ComponentTriples}

\* most tokens in an argument list, one more than the longest comma-free list accepted
MaxTokens == 6

\* the arrangements of number, slash and comma tokens
TokenKinds == UNION {[1..n -> {"N", "/", ","}] : n \in 0..MaxTokens}

NumberCycle == <<Dec(255), Dec(0), Dec(7), Point(0, 5), Dec(1), Dec(2)>>

\* the text of token i of an arrangement: the numbers are taken in turn
TokenText(q, i) ==
    IF q[i] \in {"/", ","} THEN <<q[i]>>
    ELSE NumberCycle[((Cardinality({j \in 1..i : q[j] = "N"}) - 1) % Len(NumberCycle)) + 1]

\* the tokens from i on, with one blank between two
RECURSIVE JoinTokens(_, _)
JoinTokens(q, i) ==
    IF i > Len(q) THEN <<>>
    ELSE (IF i > 1 THEN <<" ">> ELSE <<>>) \o TokenText(q, i) \o JoinTokens(q, i + 1)

ArrangedTexts == {Call(<<"r", "g", "b">>, JoinTokens(q, 1)) : q \in TokenKinds}

\* texts written out
LiteralTexts ==
    {<<"r", "g", "b", "(", "1", ",", "2", ",", "3", ",", ")">>,
     <<"r", "g", "b", "(", ",", "1", ",", "2", ",", "3", ")">>,
     <<"r", "g", "b", "(", "1", ",", ",", "2", ",", "3", ")">>,
     <<"r", "g", "b", "(", "1", ".", "2", ".", "3", " ", "4", ")">>}

\* argument lists that are valid, too short, out of range, empty, with an alpha, too long
LexBases ==
    {<<"2", "5", "5", ",", "0", ",", "7">>,
     <<"2", "5", "5", ",", "0">>,
     <<"2", "5", "6", " ", "0", " ", "0">>,
     <<>>,
     <<"2", "5", "5", " ", "0", " ", "7", " ", "/", " ", "0", ".", "5">>,
     <<"1", ",", "2", ",", "3", ",", "4", ",", "5">>}

\* bytes that start no token and are not skipped
UnknownBytes == {"a", "e", "E", "x", "(", ")", "#", "_", "*", "&", "\f"}

InsertAt(s, k, c) == SubSeq(s, 1, k) \o <<c>> \o SubSeq(s, k + 1, Len(s))

\* rgb( ) around an argument list with one unknown byte somewhere
UnknownByteTexts ==
    UNION {{Call(<<"r", "g", "b">>, InsertAt(b, k, c)) : k \in 0..Len(b), c \in UnknownBytes} :
           b \in LexBases}

\* the numbers written next to each other: with a point, starting with a
\* point, whole, signed, a percentage
AdjacentPieces ==
    {<<"1", ".", "2">>, <<".", "3">>, <<"4">>, <<"+", "6">>, <<"7", "%">>}

\* rgb( ) around three numbers, each pair joined by a blank or by nothing
AdjacentTexts ==
    {Call(<<"r", "g", "b">>, p1 \o j1 \o p2 \o j2 \o p3) :
        p1 \in AdjacentPieces, p2 \in AdjacentPieces, p3 \in AdjacentPieces,
        j1 \in {<<>>, <<" ">>}, j2 \in {<<>>, <<" ">>}}

InputTexts ==
    CssTexts \cup HexTexts \cup GarbledHexTexts \cup DispatchTexts \cup ComponentTexts
    \cup ArrangedTexts \cup LiteralTexts \cup UnknownByteTexts \cup AdjacentTexts

InitText ==
    /\ factor = 0
    /\ other = TRANSPARENT
    /\ mode = "Normal"
    /\ lch = <<0, 0, 0>>
    /\ res = NoResult
    /\ trace = "-"
    /\ \/ op = "new" /\ col \in HexColors /\ text = <<>>
       \/ op = "input" /\ col = TRANSPARENT /\ text \in InputTexts

\* c.to_string()
Format ==
    /\ op = "new"
    /\ text' = Display(col)
    /\ op' = "display"
    /\ UNCHANGED <<factor, col, other, mode, lch, res, trace>>

\* parse_color(text); trace keeps where the text came from
ParseColor ==
    /\ op \in {"input", "display"}
    /\ res' = parse_color(text)
    /\ trace' = op
    /\ op' = "parse"
    /\ UNCHANGED <<factor, col, other, mode, text, lch>>

NextText == Format \/ ParseColor

SpecText == InitText /\ [][NextText]_vars

----------------------------------------------------------------------------
(* Claims on the text specification *)

UpperHexDigits ==
    <<"0", "1", "2", "3", "4", "5", "6", "7", "8", "9", "A", "B", "C", "D", "E", "F">>

\* the byte written by the two uppercase hex digits of t at i and i + 1
HexPairValue(t, i) ==
    (IndexOf(UpperHexDigits, t[i]) - 1) * 16 + (IndexOf(UpperHexDigits, t[i + 1]) - 1)

\* t is '#' and exactly 8 uppercase hex digits that spell c as RR GG BB AA
IsCanonicalText(t, c) ==
    /\ Len(t) = 9
    /\ t[1] = "#"
    /\ \A i \in 2..9 : t[i] \in Range(UpperHexDigits)
    /\ HexPairValue(t, 2) = c.r
    /\ HexPairValue(t, 4) = c.g
    /\ HexPairValue(t, 6) = c.b
    /\ HexPairValue(t, 8) = c.a

\* C1: the canonical text of every Color c is '#' followed by exactly 8
\* uppercase hex digits in the order RR GG BB AA, and parse_color of that
\* text returns Ok(c).
C1_HexRoundTrip ==
    /\ op = "display" => IsCanonicalText(text, col)
    /\ (op = "parse" /\ trace = "display") => (IsCanonicalText(text, col) /\ res = Ok(col))

\* a Color with four different channels and hex letters was formatted and parsed back
C1_Witness ==
    /\ op = "parse"
    /\ trace = "display"
    /\ col = NewColor(171, 205, 239, 18)
    /\ text = <<"#", "A", "B", "C", "D", "E", "F", "1", "2">>
    /\ IsOk(res)

\* the texts whose colour components and alpha are each valid on their own
ValidComponents(r, g, b) ==
    IsOk(parse_rgb_component(r)) /\ IsOk(parse_rgb_component(g)) /\ IsOk(parse_rgb_component(b))

ComponentColor(r, g, b, a) ==
    NewColor(Unwrap(parse_rgb_component(r)), Unwrap(parse_rgb_component(g)),
             Unwrap(parse_rgb_component(b)), a)

\* C3: in the legacy comma grammar of rgb(), three comma-separated
\* components followed by a fourth comma-separated number are accepted and
\* the fourth is the alpha: rgb(r,g,b,a) yields Ok(Color(r,g,b,alpha(a)))
\* for valid r, g, b, a.
C3_LegacyFourthNumberIsAlpha ==
    \A r \in RedLexemes, g \in GreenLexemes, b \in BlueLexemes, a \in AlphaLexemes :
        (/\ op = "parse"
         /\ text = Call(<<"r", "g", "b">>, Legacy4(r, g, b, a))
         /\ ValidComponents(r, g, b)
         /\ IsOk(parse_alpha_component(a)))
        => res = Ok(ComponentColor(r, g, b, Unwrap(parse_alpha_component(a))))

HasDecimalOrPercent(args) == \E i \in 1..Len(args) : args[i] \in {".", "%"}

HasComma(args) == \E i \in 1..Len(args) : args[i] = ","

\* C4: rgba(...) accepts the same forms as rgb(...): for every argument
\* list the rgb() grammar accepts in modern space/slash form or with decimal
\* or percentage components, rgba(args) succeeds with the same Color as
\* rgb(args).
C4_RgbaAcceptsWhatRgbAccepts ==
    \A args \in ArgLists :
        (/\ op = "parse"
         /\ text = Call(<<"r", "g", "b", "a">>, args)
         /\ (~HasComma(args) \/ HasDecimalOrPercent(args))
         /\ IsOk(parse_color(Call(<<"r", "g", "b">>, args))))
        => res = parse_color(Call(<<"r", "g", "b">>, args))

\* the one rule of the claim for an alpha lexeme: Ok of the byte, or an error
OneAlphaRule(a) ==
    LET is_percent == a[Len(a)] = "%"
        core == IF is_percent THEN SubSeq(a, 1, Len(a) - 1) ELSE a
        v == parse_float(core)
    IN  IF is_percent
        THEN IF v # None /\ Contains(0, 100, v[1])
             THEN Ok(Round(Mul(Div(FloatOf(v[1]), Fx(100)), Fx(255))))
             ELSE Err("OutOfRange")
        ELSE IF v # None /\ Contains(0, 1, v[1]) THEN Ok(Round(Mul(FloatOf(v[1]), Fx(255))))
        ELSE IF parse_u16(core) # None /\ parse_u16(core)[1] <= 255 THEN Ok(parse_u16(core)[1])
        ELSE Err("OutOfRange")

\* res carries the alpha the one rule gives, or fails where the rule rejects
AlphaFollowsRule(a) ==
    IF IsOk(OneAlphaRule(a))
    THEN IsOk(res) /\ Unwrap(res).a = Unwrap(OneAlphaRule(a))
    ELSE ~IsOk(res)

\* C5: wherever an alpha is accepted in functional notation (after the
\* slash in rgb(), fourth argument of rgba()) it resolves by one rule:
\* N% gives round(N/100*255), a bare value in [0,1] gives round(v*255),
\* otherwise a bare integer in [0,255] gives itself; nothing else is
\* silently clamped.
C5_OneAlphaRule ==
    \A r \in RedLexemes, g \in GreenLexemes, b \in BlueLexemes, a \in AlphaLexemes :
        /\ (/\ op = "parse"
            /\ text \in {Call(<<"r", "g", "b">>, Modern4(r, g, b, a)),
                         Call(<<"r", "g", "b">>, LegacySlash(r, g, b, a))}
            /\ ValidComponents(r, g, b))
           => AlphaFollowsRule(a)
        /\ (/\ op = "parse"
            /\ text = Call(<<"r", "g", "b", "a">>, Legacy4(r, g, b, a))
            /\ IsOk(parse_u8_strict(r)) /\ IsOk(parse_u8_strict(g)) /\ IsOk(parse_u8_strict(b)))
           => AlphaFollowsRule(a)

----------------------------------------------------------------------------
(* sRGB <-> linear *)

\* decode_srgb (the build without the lookup table)
decode_srgb_calc(srgb_u8) ==
    LET srgb == Div(Fx(srgb_u8), Fx(255))
    IN  IF srgb <= 40450
        THEN Div(srgb, 12920000)
        ELSE Powf_2_4(Div(srgb + 55000, 1055000))

\* the 256 values of decode_srgb, computed once
DecodeTable == [k \in U8 |-> decode_srgb_calc(k)]

decode_srgb(srgb_u8) == DecodeTable[srgb_u8]

\* encode_srgb (the build without the lookup table)
\* (NaN is clamped to NaN, takes the second branch and is cast to 0)
encode_srgb(lin) ==
    LET l == Clamp(lin, 0, ONE)
    IN  IF lin = NaN THEN 0
        ELSE IF l <= 3131
        THEN Quantize(Mul(12920000, l))
        ELSE Quantize(Mul(1055000, Powf_1_2_4(l)) - 55000)

\* [ColorFloat; 4] is a 4-tuple
from_linear(lin) ==
    NewColor(encode_srgb(lin[1]), encode_srgb(lin[2]), encode_srgb(lin[3]),
             Quantize(Clamp(lin[4], 0, ONE)))

into_linear(c) ==
    <<decode_srgb(c.r), decode_srgb(c.g), decode_srgb(c.b), Div(Fx(c.a), Fx(255))>>

----------------------------------------------------------------------------
(* Helpers of the non-separable blend modes; a [ColorFloat; 3] is a 3-tuple *)

Min3(c) == Min(Min(c[1], c[2]), c[3])

Max3(c) == Max(Max(c[1], c[2]), c[3])

lum(c) == Mul(300000, c[1]) + Mul(590000, c[2]) + Mul(110000, c[3])

clip_color(c) ==
    LET l == lum(c)
        n == Min3(c)
        x == Max3(c)
    IN  IF n < 0 THEN [i \in 1..3 |-> AddF(l, DivF(Mul(c[i] - l, l), l - n))]
        ELSE IF x > ONE THEN [i \in 1..3 |-> AddF(l, DivF(Mul(c[i] - l, ONE - l), x - l))]
        ELSE c

set_lum(c, l) ==
    LET d == l - lum(c)
    IN  clip_color(<<c[1] + d, c[2] + d, c[3] + d>>)

sat(c) == Max3(c) - Min3(c)

\* set_sat without the rescaling
set_sat_ChromaKept(c, s) == IF sat(c) = 0 THEN <<0, 0, 0>> ELSE c

\* the channel order chosen by the sequential comparisons: <<max_ch, mid_ch, min_ch>>
\* as indices 1 (r), 2 (g), 3 (b)
SatOrder(c) ==
    LET r == c[1]
        g == c[2]
        b == c[3]
    IN  IF r >= g /\ r >= b THEN (IF g <= b THEN <<1, 3, 2>> ELSE <<1, 2, 3>>)
        ELSE IF g >= r /\ g >= b THEN (IF r <= b THEN <<2, 3, 1>> ELSE <<2, 1, 3>>)
        ELSE (IF r <= g THEN <<3, 2, 1>> ELSE <<3, 1, 2>>)

set_sat(c, s) ==
    LET o == SatOrder(c)
        max == c[o[1]]
        mid == c[o[2]]
        min == c[o[3]]
        chroma == max - min
        scale == Div(s, chroma)
        new_max == mid + Mul(max - mid, scale)
        new_min == mid - Mul(mid - min, scale)
        new_mid == mid
    IN  IF chroma = 0 THEN <<0, 0, 0>>
        ELSE [i \in 1..3 |-> IF i = o[2] THEN new_mid
                             ELSE IF i = o[3] THEN new_min
                             ELSE new_max]

----------------------------------------------------------------------------
(* blend_channel *)

BlendMode ==
    {"Normal", "Multiply", "Screen", "Overlay", "Darken", "Lighten", "ColorDodge",
     "ColorBurn", "HardLight", "SoftLight", "Difference", "Exclusion",
     "Hue", "Saturation", "Color", "Luminosity"}

ColorDodgeFn(b, s) ==
    IF b = 0 THEN 0 ELSE IF s = ONE THEN ONE ELSE Min(ONE, Div(b, ONE - s))

ColorBurnFn(b, s) ==
    IF b = ONE THEN ONE ELSE IF s = 0 THEN 0 ELSE ONE - Min(ONE, Div(ONE - b, s))

HardLightFn(b, s) ==
    IF s <= 500000
    THEN Mul(Mul(Fx(2), b), s)
    ELSE ONE - Mul(Mul(Fx(2), ONE - b), ONE - s)

SoftLightFn(b, s) ==
    IF s <= 500000
    THEN b - Mul(Mul(ONE - Mul(Fx(2), s), b), ONE - b)
    ELSE LET d == IF b <= 250000
                  THEN Mul(Mul(Mul(Fx(16), b) - Fx(12), b) + Fx(4), b)
                  ELSE Sqrt(b)
         IN  b + Mul(Mul(Fx(2), s) - ONE, d - b)

\* the closure handed to blend for a separable mode
SeparableFn(m, b, s) ==
    CASE m = "Multiply" -> Mul(b, s)
      [] m = "Screen" -> b + s - Mul(b, s)
      [] m = "Darken" -> Min(b, s)
      [] m = "Lighten" -> Max(b, s)
      [] m = "ColorDodge" -> ColorDodgeFn(b, s)
      [] m = "ColorBurn" -> ColorBurnFn(b, s)
      [] m = "HardLight" -> HardLightFn(b, s)
      [] m = "SoftLight" -> SoftLightFn(b, s)
      [] m = "Difference" -> Abs(b - s)
      [] m = "Exclusion" -> b + s - Mul(Mul(Fx(2), b), s)

\* blend(&backdrop, &source, f) with the closure of mode m
blend(backdrop, source, m) == [i \in 1..3 |-> SeparableFn(m, backdrop[i], source[i])]

\* blend_channel(mode, backdrop, source); the Overlay arm calls
\* blend_channel(HardLight, backdrop, source)
blend_channel(m, backdrop, source) ==
    CASE m = "Normal" -> source
      [] m = "Overlay" -> blend(backdrop, source, "HardLight")
      [] m = "Hue" -> set_lum(set_sat(source, sat(backdrop)), lum(backdrop))
      [] m = "Saturation" -> set_lum(set_sat(backdrop, sat(source)), lum(backdrop))
      [] m = "Color" -> set_lum(source, lum(backdrop))
      [] m = "Luminosity" -> set_lum(backdrop, lum(source))
      [] OTHER -> blend(backdrop, source, m)

----------------------------------------------------------------------------
(* over, blend_over, over_srgb_fast *)

over(self, bg0) ==
    LET fg == into_linear(self)
        bg == into_linear(bg0)
        fa == fg[4]
        ba == bg[4]
        out_a == fa + Mul(ba, ONE - fa)
        ch(i) == Div(Mul(fg[i], fa) + Mul(Mul(bg[i], ba), ONE - fa), out_a)
    IN  IF out_a > 0
        THEN from_linear(<<ch(1), ch(2), ch(3), out_a>>)
        ELSE from_linear(<<0, 0, 0, out_a>>)

\* the [br, bg_, bb] of blend_over:
\* blend_channel(mode, [sr, sg, sb], [dr, dg, db])
blended(self, bg, m) ==
    LET s == into_linear(self)
        d == into_linear(bg)
    IN  blend_channel(m, <<s[1], s[2], s[3]>>, <<d[1], d[2], d[3]>>)

\* the general path of blend_over with the alphas added and their product
\* not taken off
blend_over_general_AlphaSummed(self, bg, m) ==
    LET s == into_linear(self)
        d == into_linear(bg)
        sa == s[4]
        da == d[4]
        bl == blended(self, bg, m)
        a_out == sa + da
        c_p(i) == Mul(Mul(d[i], da), ONE - sa) + Mul(Mul(s[i], sa), ONE - da)
                  + Mul(Mul(sa, da), bl[i])
        c(i) == IF IsFinite(bl[i]) THEN Div(c_p(i), a_out) ELSE bl[i]
    IN  IF a_out > 0
        THEN from_linear(<<c(1), c(2), c(3), a_out>>)
        ELSE from_linear(<<0, 0, 0, 0>>)

\* the path of blend_over after its two early returns
blend_over_general(self, bg, m) ==
    LET s == into_linear(self)
        d == into_linear(bg)
        sa == s[4]
        da == d[4]
        bl == blended(self, bg, m)
        a_out == sa + da - Mul(sa, da)
        c_p(i) == Mul(Mul(d[i], da), ONE - sa) + Mul(Mul(s[i], sa), ONE - da)
                  + Mul(Mul(sa, da), bl[i])
        \* c_p / a_out; a blended channel that is no number stays what it is
        \* (sa * da and a_out are positive here)
        c(i) == IF IsFinite(bl[i]) THEN Div(c_p(i), a_out) ELSE bl[i]
    IN  IF a_out > 0
        THEN from_linear(<<c(1), c(2), c(3), a_out>>)
        ELSE from_linear(<<0, 0, 0, 0>>)

\* blend_over that composites with over whatever the mode
blend_over_ModeIgnored(self, bg, m) ==
    IF self.a = 0 THEN bg ELSE over(self, bg)

blend_over(self, bg, m) ==
    IF self.a = 0 THEN bg
    ELSE IF m = "Normal" \/ bg.a = 0 THEN over(self, bg)
    ELSE blend_over_general(self, bg, m)

over_srgb_fast(self, dst0) ==
    LET dst == IF dst0.a = 0 THEN self ELSE dst0
        sa == Div(Fx(self.a), Fx(255))
        da == Div(Fx(dst.a), Fx(255))
        out_a == sa + Mul(da, ONE - sa)
        \* the closure blend; 1e-6 is 1
        bl(sc0, dc0) ==
            LET sc == Div(Fx(sc0), Fx(255))
                dc == Div(Fx(dc0), Fx(255))
                out == Div(Mul(sc, sa) + Mul(Mul(dc, da), ONE - sa), Max(out_a, 1))
            IN  Quantize(out)
    IN  IF sa <= 0 THEN dst
        ELSE NewColor(bl(self.r, dst.r), bl(self.g, dst.g), bl(self.b, dst.b), Quantize(out_a))

----------------------------------------------------------------------------
(* The compositing specification: two Colors and a blend mode are drawn    *)
(* and one of the compositing functions is applied to them.                *)

\* the Colors composited: transparent with and without colour, translucent, opaque
BlendColors ==
    {TRANSPARENT, NewColor(10, 20, 30, 0), NewColor(255, 0, 0, 128), NewColor(10, 20, 30, 128),
     NewColor(40, 200, 90, 1), NewColor(64, 128, 192, 255), NewColor(230, 90, 160, 255),
     NewColor(128, 128, 128, 255), BLACK, WHITE}

InitBlend ==
    /\ factor = 0
    /\ col \in BlendColors
    /\ other \in BlendColors
    /\ mode \in BlendMode
    /\ text = <<>>
    /\ lch = <<0, 0, 0>>
    /\ op = "new"
    /\ res = NoResult
    /\ trace = "-"

\* col.over(other)
Over ==
    /\ op = "new"
    /\ res' = Ok(over(col, other))
    /\ op' = "over"
    /\ UNCHANGED <<factor, col, other, mode, text, lch, trace>>

\* col.blend_over(other, mode); trace keeps the return taken
BlendOver ==
    /\ op = "new"
    /\ res' = Ok(blend_over(col, other, mode))
    /\ trace' = IF col.a = 0 THEN "backdrop"
                ELSE IF mode = "Normal" \/ other.a = 0 THEN "over"
                ELSE "blend"
    /\ op' = "blend_over"
    /\ UNCHANGED <<factor, col, other, mode, text, lch>>

\* col.over_srgb_fast(other)
OverSrgbFast ==
    /\ op = "new"
    /\ res' = Ok(over_srgb_fast(col, other))
    /\ op' = "over_srgb_fast"
    /\ UNCHANGED <<factor, col, other, mode, text, lch, trace>>

NextBlend == Over \/ BlendOver \/ OverSrgbFast

SpecBlend == InitBlend /\ [][NextBlend]_vars

----------------------------------------------------------------------------
(* Claims on the compositing specification *)

\* C2: for every source colour and every backdrop, including all
\* combinations of zero alpha, blend_over(src, bg, Normal) returns exactly
\* the same Color as over(src, bg).
C2_NormalEqualsOver ==
    (op = "blend_over" /\ mode = "Normal") => res = Ok(over(col, other))

Opaque(c) == c.a = 255

Triple(c) == <<into_linear(c)[1], into_linear(c)[2], into_linear(c)[3]>>

\* C6: Overlay is HardLight with its operands exchanged: for all opaque x
\* and y, blend_over(x, y, Overlay) equals blend_over(y, x, HardLight), and
\* the per-channel Overlay function of (backdrop b, source s) equals the
\* HardLight function of (backdrop s, source b).
C6_OverlayIsSwappedHardLight ==
    (op = "blend_over" /\ mode = "Overlay" /\ Opaque(col) /\ Opaque(other)) =>
        /\ res = Ok(blend_over(other, col, "HardLight"))
        /\ blend_channel("Overlay", Triple(other), Triple(col))
           = blend_channel("HardLight", Triple(col), Triple(other))

\* C7: over_srgb_fast(src, dst) with dst.alpha == 0 returns src unmodified,
\* for every src including those with alpha strictly between 0 and 255.
C7_FastOverAdoptsSource ==
    (op = "over_srgb_fast" /\ other.a = 0) => res = Ok(col)

\* C8: over_srgb_fast(src, dst) with src.alpha == 0 returns dst unmodified
\* for every dst, including a dst whose alpha is also 0 but whose colour
\* channels differ from those of src.
C8_FastOverKeepsDestination ==
    (op = "over_srgb_fast" /\ col.a = 0) => res = Ok(other)

----------------------------------------------------------------------------
(* Angles *)

\* core::f32::consts::PI
PI == 3141593

\* f32::rem_euclid(m) for m > 0
rem_euclid(x, m) == x % m

\* f32::to_radians
to_radians(h) == Div(Mul(h, PI), Fx(180))

\* f32::to_degrees
to_degrees(x) == Div(Mul(x, Fx(180)), PI)

\* sin z for -PI/2 <= z <= PI/2: the series up to z^11
SinSeries(z) ==
    LET z2 == Mul(z, z)
        t5 == ONE - Div(z2, Fx(110))
        t4 == ONE - Mul(Div(z2, Fx(72)), t5)
        t3 == ONE - Mul(Div(z2, Fx(42)), t4)
        t2 == ONE - Mul(Div(z2, Fx(20)), t3)
        t1 == ONE - Mul(Div(z2, Fx(6)), t2)
    IN  Mul(z, t1)

\* f32::sin
Sin(x) ==
    LET y == ((x + PI) % (2 * PI)) - PI
        z == IF 2 * y > PI THEN PI - y
             ELSE IF 2 * y < -PI THEN (-PI) - y
             ELSE y
    IN  SinSeries(z)

\* f32::cos
Cos(x) == Sin(x + (PI \div 2))

\* atan t for 0 <= t <= 1/4: the series up to t^7
AtanSeries(t) ==
    LET t2 == Mul(t, t)
        u3 == 200000 - Div(t2, Fx(7))
        u2 == 333333 - Mul(t2, u3)
        u1 == ONE - Mul(t2, u2)
    IN  Mul(t, u1)

\* tan(x / 2) from t = tan x, 0 <= t
HalfAngle(t) == Div(t, ONE + Sqrt(ONE + Mul(t, t)))

\* atan t for 0 <= t <= 1
AtanUnit(t) == 4 * AtanSeries(HalfAngle(HalfAngle(t)))

\* f32::atan2: y.atan2(x)
Atan2(y, x) ==
    IF x = 0 /\ y = 0 THEN 0
    ELSE LET ay == Abs(y)
             ax == Abs(x)
             base == IF ay <= ax
                     THEN AtanUnit(Div(ay, ax))
                     ELSE (PI \div 2) - AtanUnit(Div(ax, ay))
             q == IF x >= 0 THEN base ELSE PI - base
         IN  IF y < 0 THEN -q ELSE q

----------------------------------------------------------------------------
(* HSL *)

\* the (r', g', b') of the hue sector of h, common to from_hsl and from_hsla
HueSector(h, c, x) ==
    IF h < Fx(60) THEN <<c, x, 0>>
    ELSE IF h < Fx(120) THEN <<x, c, 0>>
    ELSE IF h < Fx(180) THEN <<0, c, x>>
    ELSE IF h < Fx(240) THEN <<0, x, c>>
    ELSE IF h < Fx(300) THEN <<x, 0, c>>
    ELSE <<c, 0, x>>

\* the body shared by from_hsl and from_hsla: h in [0, 360), s and l as taken
HslToColor(h, s, l, a) ==
    LET c == Mul(ONE - Abs(2 * l - ONE), s)
        x == Mul(c, ONE - Abs((Div(h, Fx(60)) % Fx(2)) - ONE))
        m == l - Div(c, Fx(2))
        p == HueSector(h, c, x)
    IN  NewColor(Quantize(p[1] + m), Quantize(p[2] + m), Quantize(p[3] + m), a)

\* s and l are percentages; the alpha is always 255
from_hsl(hsl) ==
    HslToColor(rem_euclid(hsl[1], Fx(360)), Div(hsl[2], Fx(100)), Div(hsl[3], Fx(100)), 255)

\* s and l are clamped to [0, 1]
from_hsla(hsla) ==
    HslToColor(rem_euclid(hsla[1], Fx(360)), Clamp(hsla[2], 0, ONE), Clamp(hsla[3], 0, ONE),
               Quantize(hsla[4]))

\* the body shared by into_hsl and into_hsla: <<h, s, l>> with s and l in [0, 1]
\* (two different bytes are more than 1e-8 apart, so delta needs no snapping)
ColorToHsl(self) ==
    LET r_prime == Div(Fx(self.r), Fx(255))
        g_prime == Div(Fx(self.g), Fx(255))
        b_prime == Div(Fx(self.b), Fx(255))
        c_max == Max(Max(r_prime, g_prime), b_prime)
        c_min == Min(Min(r_prime, g_prime), b_prime)
        delta == c_max - c_min
        h == IF delta = 0 THEN 0
             ELSE IF r_prime = c_max
             THEN Mul(Fx(60), rem_euclid(Div(g_prime - b_prime, delta), Fx(6)))
             ELSE IF g_prime = c_max
             THEN Mul(Fx(60), Div(b_prime - r_prime, delta) + Fx(2))
             ELSE Mul(Fx(60), Div(r_prime - g_prime, delta) + Fx(4))
        l == Div(c_max + c_min, Fx(2))
        s == IF delta = 0 THEN 0 ELSE DivF(delta, ONE - Abs(2 * l - ONE))
    IN  <<h, s, l>>

into_hsl(self) ==
    LET hsl == ColorToHsl(self)
    IN  <<hsl[1], Mul(hsl[2], Fx(100)), Mul(hsl[3], Fx(100))>>

into_hsla(self) == into_hsl(self) \o <<Div(Fx(self.a), Fx(255))>>

----------------------------------------------------------------------------
(* OKLab and OKLCH; the matrix entries are the ColorFloats of the source *)

\* the linear-light triple of an OKLab triple, as from_oklab computes it
oklab_to_linear(lab) ==
    LET l_ == lab[1] + Mul(396338, lab[2]) + Mul(215804, lab[3])
        m_ == lab[1] - Mul(105561, lab[2]) - Mul(63854, lab[3])
        s_ == lab[1] - Mul(89484, lab[2]) - Mul(1291486, lab[3])
        l == Mul(Mul(l_, l_), l_)
        m == Mul(Mul(m_, m_), m_)
        s == Mul(Mul(s_, s_), s_)
    IN  <<Mul(4076742, l) - Mul(3307712, m) + Mul(230970, s),
          Mul(-1268438, l) + Mul(2609757, m) - Mul(341319, s),
          Mul(-4196, l) - Mul(703419, m) + Mul(1707615, s)>>

\* the alpha handed to from_linear is the literal 1.0
from_oklab(lab) == from_linear(oklab_to_linear(lab) \o <<ONE>>)

into_oklab(self) ==
    LET lin == into_linear(self)
        l == Cbrt(Mul(412221, lin[1]) + Mul(536333, lin[2]) + Mul(51446, lin[3]))
        m == Cbrt(Mul(211904, lin[1]) + Mul(680700, lin[2]) + Mul(107397, lin[3]))
        s == Cbrt(Mul(88302, lin[1]) + Mul(281719, lin[2]) + Mul(629979, lin[3]))
    IN  <<Mul(210454, l) + Mul(793618, m) - Mul(4072, s),
          Mul(1977999, l) - Mul(2428592, m) + Mul(450594, s),
          Mul(25904, l) + Mul(782772, m) - Mul(808676, s)>>

oklch_to_oklab(lch3) ==
    LET h == to_radians(lch3[3])
    IN  <<lch3[1], Mul(lch3[2], Cos(h)), Mul(lch3[2], Sin(h))>>

\* the body of into_oklch after `let [l, a, b] = self.into_oklab()`
oklab_to_oklch(lab) ==
    LET c == Sqrt(Mul(lab[2], lab[2]) + Mul(lab[3], lab[3]))
        h == to_degrees(Atan2(lab[3], lab[2]))
    IN  <<lab[1], c, IF h < 0 THEN h + Fx(360) ELSE h>>

into_oklch(self) == oklab_to_oklch(into_oklab(self))

\* the closure `within` of from_oklch
within(rgb) == \A i \in 1..3 : rgb[i] >= 0 /\ rgb[i] <= ONE

\* the closure `to_srgb` of from_oklch: the linear triple of the Color made
to_srgb(lch3) ==
    LET lin == into_linear(from_oklab(oklch_to_oklab(lch3)))
    IN  <<lin[1], lin[2], lin[3]>>

\* the number of halvings of the chroma interval
BisectSteps == 24

\* the `for _ in 0..24` loop of from_oklch with n iterations left: its final lo
RECURSIVE ShrinkChroma(_, _, _, _)
ShrinkChroma(lch3, lo, hi, n) ==
    IF n = 0 THEN lo
    ELSE LET mid == Mul(ONE \div 2, lo + hi)
         IN  IF within(to_srgb(<<lch3[1], mid, lch3[3]>>))
             THEN ShrinkChroma(lch3, mid, hi, n - 1)
             ELSE ShrinkChroma(lch3, lo, mid, n - 1)

\* the branch from_oklch takes
from_oklch_branch(lch3) == IF within(to_srgb(lch3)) THEN "direct" ELSE "bisect"

from_oklch(lch3) ==
    IF from_oklch_branch(lch3) = "direct"
    THEN from_oklab(oklch_to_oklab(lch3))
    ELSE from_oklab(oklch_to_oklab(<<lch3[1], ShrinkChroma(lch3, 0, lch3[2], BisectSteps),
                                     lch3[3]>>))

----------------------------------------------------------------------------
(* The conversion specification: a Color is taken into a colour space and  *)
(* brought back, or an OKLCH triple is converted.                          *)

\* the colour channels converted: greys, primaries, dark and mixed colours
ConvertTriples ==
    {<<0, 0, 0>>, <<255, 255, 255>>, <<128, 128, 128>>, <<255, 0, 0>>, <<0, 255, 0>>,
     <<0, 0, 255>>, <<10, 20, 30>>, <<200, 20, 130>>, <<1, 2, 3>>, <<250, 240, 100>>}

\* the alphas they carry
ConvertAlphas == {0, 1, 128, 254, 255}

\* the channel values of the opaque grid: the ends, their neighbours, the middle
GridBytes == {0, 1, 51, 127, 128, 204, 254, 255}

ConvertColors ==
    {NewColor(t[1], t[2], t[3], a) : t \in ConvertTriples, a \in ConvertAlphas}
    \cup {NewColor(r, g, b, 255) : r \in GridBytes, g \in GridBytes, b \in GridBytes}

\* the OKLCH triples converted: inside the sRGB gamut, and outside of it
LchInputs ==
    {<<700000, 100000, Fx(30)>>, <<600000, 50000, Fx(250)>>, <<500000, 0, Fx(0)>>,
     <<700000, 400000, Fx(30)>>, <<500000, 300000, Fx(150)>>, <<900000, 500000, Fx(110)>>,
     <<300000, 350000, Fx(270)>>}

InitConvert ==
    /\ factor = 0
    /\ other = TRANSPARENT
    /\ mode = "Normal"
    /\ text = <<>>
    /\ res = NoResult
    /\ trace = "-"
    /\ \/ op = "new" /\ col \in ConvertColors /\ lch = <<0, 0, 0>>
       \/ op = "input" /\ col = TRANSPARENT /\ lch \in LchInputs

\* col.into_linear()
IntoLinear ==
    /\ op = "new"
    /\ res' = Ok(into_linear(col))
    /\ op' = "into_linear"
    /\ UNCHANGED <<factor, col, other, mode, text, lch, trace>>

\* Color::from_linear(res)
FromLinear ==
    /\ op = "into_linear"
    /\ res' = Ok(from_linear(Unwrap(res)))
    /\ op' = "from_linear"
    /\ UNCHANGED <<factor, col, other, mode, text, lch, trace>>

\* col.into_hsl()
IntoHsl ==
    /\ op = "new"
    /\ res' = Ok(into_hsl(col))
    /\ op' = "into_hsl"
    /\ UNCHANGED <<factor, col, other, mode, text, lch, trace>>

\* Color::from_hsl(res)
FromHsl ==
    /\ op = "into_hsl"
    /\ res' = Ok(from_hsl(Unwrap(res)))
    /\ op' = "from_hsl"
    /\ UNCHANGED <<factor, col, other, mode, text, lch, trace>>

\* col.into_hsla()
IntoHsla ==
    /\ op = "new"
    /\ res' = Ok(into_hsla(col))
    /\ op' = "into_hsla"
    /\ UNCHANGED <<factor, col, other, mode, text, lch, trace>>

\* Color::from_hsla(res)
FromHsla ==
    /\ op = "into_hsla"
    /\ res' = Ok(from_hsla(Unwrap(res)))
    /\ op' = "from_hsla"
    /\ UNCHANGED <<factor, col, other, mode, text, lch, trace>>

\* col.into_oklab()
IntoOklab ==
    /\ op = "new"
    /\ res' = Ok(into_oklab(col))
    /\ op' = "into_oklab"
    /\ UNCHANGED <<factor, col, other, mode, text, lch, trace>>

\* Color::from_oklab(res)
FromOklab ==
    /\ op = "into_oklab"
    /\ res' = Ok(from_oklab(Unwrap(res)))
    /\ op' = "from_oklab"
    /\ UNCHANGED <<factor, col, other, mode, text, lch, trace>>

\* col.into_oklch(); the triple becomes the operand of from_oklch
IntoOklch ==
    /\ op = "new"
    /\ res' = Ok(into_oklch(col))
    /\ lch' = into_oklch(col)
    /\ op' = "into_oklch"
    /\ UNCHANGED <<factor, col, other, mode, text, trace>>

\* Color::from_oklch(lch); trace keeps the branch taken
FromOklch ==
    /\ op \in {"input", "into_oklch"}
    /\ res' = Ok(from_oklch(lch))
    /\ trace' = from_oklch_branch(lch)
    /\ op' = "from_oklch"
    /\ UNCHANGED <<factor, col, other, mode, text, lch>>

NextConvert ==
    \/ IntoLinear \/ FromLinear
    \/ IntoHsl \/ FromHsl
    \/ IntoHsla \/ FromHsla
    \/ IntoOklab \/ FromOklab
    \/ IntoOklch \/ FromOklch

SpecConvert == InitConvert /\ [][NextConvert]_vars

----------------------------------------------------------------------------
(* Claims on the conversion specification *)

\* C9: alpha is carried unchanged through every colour-space round trip:
\* for every Color c the alpha of from_linear(into_linear(c)),
\* from_hsl(into_hsl(c)), from_oklab(into_oklab(c)) and
\* from_oklch(into_oklch(c)) equals c.alpha.
C9_AlphaCarriedThroughRoundTrips ==
    /\ op = "from_linear" => Unwrap(res).a = col.a
    /\ op = "from_hsl" => Unwrap(res).a = col.a
    /\ op = "from_oklab" => Unwrap(res).a = col.a
    /\ (op = "from_oklch" /\ lch = into_oklch(col)) => Unwrap(res).a = col.a

\* the direct OKLab -> linear conversion of (L, C, h) lands every channel in [0, 1]
InGamut(lch3) == within(oklab_to_linear(oklch_to_oklab(lch3)))

\* the largest in-gamut chroma at or below hi, by n halvings of [lo, hi]
RECURSIVE LargestInGamutChroma(_, _, _, _)
LargestInGamutChroma(lch3, lo, hi, n) ==
    IF n = 0 THEN lo
    ELSE LET mid == Mul(ONE \div 2, lo + hi)
         IN  IF InGamut(<<lch3[1], mid, lch3[3]>>)
             THEN LargestInGamutChroma(lch3, mid, hi, n - 1)
             ELSE LargestInGamutChroma(lch3, lo, mid, n - 1)

\* C10: from_oklch gamut-maps by chroma reduction: when the direct
\* OKLab -> linear conversion of (L, C, h) puts some linear channel outside
\* [0,1], the 24-step bisection over chroma in [0, C] is executed and the
\* returned colour is the conversion of (L, C', h) with C' < C the largest
\* in-gamut chroma at or below C; only when every channel is already in
\* [0,1] is the input converted unmodified.
C10_GamutMapsByChromaReduction ==
    op = "from_oklch" =>
        IF InGamut(lch)
        THEN trace = "direct" /\ res = Ok(from_oklab(oklch_to_oklab(lch)))
        ELSE LET reduced == LargestInGamutChroma(lch, 0, lch[2], BisectSteps)
             IN  /\ trace = "bisect"
                 /\ reduced < lch[2]
                 /\ res = Ok(from_oklab(oklch_to_oklab(<<lch[1], reduced, lch[3]>>)))

----------------------------------------------------------------------------
(* Claims on the blend modes *)

\* each channel of x is at most 1 apart from that of y
WithinOne(x, y) ==
    /\ Abs(x.r - y.r) <= 1
    /\ Abs(x.g - y.g) <= 1
    /\ Abs(x.b - y.b) <= 1
    /\ Abs(x.a - y.a) <= 1

\* the neutral source of the identities: <<mode, source>>
NeutralSources ==
    {<<"Multiply", WHITE>>, <<"Screen", BLACK>>, <<"Difference", BLACK>>, <<"Exclusion", BLACK>>}

\* C11 as stated: for every backdrop colour bg, blend_over(WHITE, bg, Multiply),
\* blend_over(BLACK, bg, Screen), blend_over(BLACK, bg, Difference) and
\* blend_over(BLACK, bg, Exclusion) each return bg, each channel at most 1 apart.
C11_NeutralSourceKeepsBackdrop ==
    (op = "blend_over" /\ <<mode, col>> \in NeutralSources) => WithinOne(Unwrap(res), other)

\* C11 amended: the identities hold for every opaque backdrop bg.
C11_NeutralSourceKeepsOpaqueBackdrop ==
    (op = "blend_over" /\ <<mode, col>> \in NeutralSources /\ Opaque(other))
        => WithinOne(Unwrap(res), other)

\* WHITE was multiplied over an opaque coloured backdrop, which came back
C11_Witness ==
    /\ op = "blend_over"
    /\ mode = "Multiply"
    /\ col = WHITE
    /\ other = NewColor(64, 128, 192, 255)
    /\ trace = "blend"
    /\ res = Ok(other)

\* the Color of the blended linear triple of an opaque pair, with backdrop b and source s
BlendedOpaque(m, b, s) == from_linear(blend_channel(m, Triple(b), Triple(s)) \o <<ONE>>)

\* C12: painting with the documented neutral source changes nothing: for
\* every opaque backdrop bg, blend_over(BLACK, bg, ColorDodge) and
\* blend_over(WHITE, bg, ColorBurn) equal bg within rounding, i.e. the 'b'
\* operand of the ColorDodge/ColorBurn formulas is the backdrop and 's' is
\* the source.
C12_DodgeBurnNeutralSource ==
    (/\ op = "blend_over"
     /\ Opaque(other)
     /\ <<mode, col>> \in {<<"ColorDodge", BLACK>>, <<"ColorBurn", WHITE>>})
    => /\ WithinOne(Unwrap(res), other)
       /\ WithinOne(Unwrap(res), BlendedOpaque(mode, other, col))

\* the largest difference at which two luminances count as equal (1e-4)
LumTolerance == 100

AllFinite(c) == \A i \in 1..3 : IsFinite(c[i])

\* the triple c has the luminance of the linear triple of the Color x
HasLumOf(c, x) == AllFinite(c) /\ Abs(lum(c) - lum(Triple(x))) <= LumTolerance

\* C13: for opaque src and bg, the linear triple blended by blend_over has
\* the luminance of the backdrop in modes Hue, Saturation and Color, and
\* the luminance of the source in mode Luminosity; in mode Color it is
\* set_lum(source, lum(backdrop)) and in mode Luminosity it is
\* set_lum(backdrop, lum(source)).
C13_NonSeparableLuminance ==
    (op = "blend_over" /\ Opaque(col) /\ Opaque(other)) =>
        /\ mode \in {"Hue", "Saturation", "Color"} => HasLumOf(blended(col, other, mode), other)
        /\ mode = "Luminosity" => HasLumOf(blended(col, other, mode), col)
        /\ mode = "Color" =>
               blended(col, other, mode) = set_lum(Triple(col), lum(Triple(other)))
        /\ mode = "Luminosity" =>
               blended(col, other, mode) = set_lum(Triple(other), lum(Triple(col)))

----------------------------------------------------------------------------
(* lighten_hsl, darken_hsl *)

lighten_hsl(self, amt) ==
    LET hsl == into_hsl(self)
    IN  from_hsl(<<hsl[1], hsl[2], Clamp(hsl[3] + amt, 0, ONE)>>)

darken_hsl(self, amt) ==
    LET hsl == into_hsl(self)
    IN  from_hsl(<<hsl[1], hsl[2], Clamp(hsl[3] - amt, 0, ONE)>>)

----------------------------------------------------------------------------
(* The adjustment specification: a Color is lightened or darkened by an    *)
(* amount.                                                                 *)

\* the Colors adjusted: the two of the documentation, greys, dark, light, translucent
AdjustColors ==
    {NewColor(238, 130, 238, 255), NewColor(143, 188, 143, 255), NewColor(10, 20, 30, 255),
     NewColor(250, 240, 100, 255), NewColor(128, 128, 128, 255), NewColor(255, 0, 0, 255),
     NewColor(0, 0, 90, 255), NewColor(200, 20, 130, 128), NewColor(3, 3, 3, 255),
     BLACK, WHITE, TRANSPARENT}

\* the amounts: none, fractions of 1, 1, and amounts on the percent scale
Amounts == {0, 100000, 250000, 500000, ONE, Fx(10), Fx(50)}

InitAdjust ==
    /\ col \in AdjustColors
    /\ factor \in Amounts
    /\ other = TRANSPARENT
    /\ mode = "Normal"
    /\ text = <<>>
    /\ lch = <<0, 0, 0>>
    /\ op = "new"
    /\ res = NoResult
    /\ trace = "-"

\* col.lighten_hsl(factor)
LightenHsl ==
    /\ op = "new"
    /\ res' = Ok(lighten_hsl(col, factor))
    /\ op' = "lighten_hsl"
    /\ UNCHANGED <<col, other, mode, text, lch, factor, trace>>

\* col.darken_hsl(factor)
DarkenHsl ==
    /\ op = "new"
    /\ res' = Ok(darken_hsl(col, factor))
    /\ op' = "darken_hsl"
    /\ UNCHANGED <<col, other, mode, text, lch, factor, trace>>

NextAdjust == LightenHsl \/ DarkenHsl

SpecAdjust == InitAdjust /\ [][NextAdjust]_vars

----------------------------------------------------------------------------
(* Claims on the adjustment specification *)

\* the difference within which two hues (degrees) or two percentages count as equal: 1
HslTolerance == 1000000

\* the distance of two hues on the circle
HueDistance(h1, h2) == Min(Abs(h1 - h2), Fx(360) - Abs(h1 - h2))

\* the Colors x and y have the same hue and saturation
SameHueAndSaturation(x, y) ==
    /\ HueDistance(into_hsl(x)[1], into_hsl(y)[1]) <= HslTolerance
    /\ Abs(into_hsl(x)[2] - into_hsl(y)[2]) <= HslTolerance

\* C14: lighten_hsl raises and darken_hsl lowers HSL lightness: for every
\* Color c and amt >= 0 the HSL lightness of lighten_hsl(c, amt) is >= that
\* of c and the lightness of darken_hsl(c, amt) is <= that of c, with hue
\* and saturation kept; with amt == 0 both return c (within rounding).
C14_LightenRaisesDarkenLowers ==
    /\ op = "lighten_hsl" =>
           /\ into_hsl(Unwrap(res))[3] >= into_hsl(col)[3] - HslTolerance
           /\ SameHueAndSaturation(Unwrap(res), col)
    /\ op = "darken_hsl" =>
           /\ into_hsl(Unwrap(res))[3] <= into_hsl(col)[3] + HslTolerance
           /\ SameHueAndSaturation(Unwrap(res), col)
    /\ (op \in {"lighten_hsl", "darken_hsl"} /\ factor = 0) => WithinOne(Unwrap(res), col)

\* C15: HSL round trip: for every RGB triple with alpha 255,
\* from_hsl(into_hsl(c)) reproduces c within 1 per channel; into_hsl returns
\* hue in [0,360) and saturation and lightness as percentages in [0,100],
\* with hue = saturation = 0 when the maximum and minimum channel are equal.
C15_HslRoundTrip ==
    /\ (op = "into_hsl" /\ col.a = 255) =>
           LET hsl == Unwrap(res)
           IN  /\ 0 <= hsl[1] /\ hsl[1] < Fx(360)
               /\ 0 <= hsl[2] /\ hsl[2] <= Fx(100)
               /\ 0 <= hsl[3] /\ hsl[3] <= Fx(100)
               /\ Max3(<<col.r, col.g, col.b>>) = Min3(<<col.r, col.g, col.b>>)
                      => (hsl[1] = 0 /\ hsl[2] = 0)
    /\ (op = "from_hsl" /\ col.a = 255) => WithinOne(Unwrap(res), col)


----------------------------------------------------------------------------
(* Claims on hex input *)

\* the value of a hex digit of either case
HexValue(c) ==
    CHOOSE v \in 0..15 :
        c \in {UpperHexDigits[v + 1], to_ascii_lowercase_char(UpperHexDigits[v + 1])}

\* the byte whose two nibbles are the digit c
NibbleByte(c) == HexValue(c) * 16 + HexValue(c)

\* t is '#' and n hex digits
IsHexText(t, n) ==
    Len(t) = n + 1 /\ t[1] = "#" /\ \A i \in 2..(n + 1) : t[i] \in HexDigitChars

\* t is '#' and n hex digits that are each written twice
IsDuplicatedHexText(t, n) ==
    IsHexText(t, 2 * n) /\ \A i \in 1..n : t[2 * i] = t[2 * i + 1]

\* C16: short hex forms duplicate each nibble: for all hex digits R, G, B,
\* A of either case, parse_color of #RGB and of #RRGGBB both give the Color
\* whose bytes are RR, GG, BB with alpha 255, and parse_color of #RGBA and
\* of #RRGGBBAA both give the Color whose bytes are RR, GG, BB, AA; every
\* byte is the nibble times 17, within 0..255.
C16_ShortHexDuplicatesNibbles ==
    \A n \in {3, 4} :
        (op = "parse" /\ (IsHexText(text, n) \/ IsDuplicatedHexText(text, n)))
        => LET d == IF IsHexText(text, n) THEN Tail(text) ELSE [i \in 1..n |-> text[2 * i]]
           IN  /\ \A i \in 1..n : NibbleByte(d[i]) = 17 * HexValue(d[i]) /\ NibbleByte(d[i]) \in U8
               /\ res = Ok(NewColor(NibbleByte(d[1]), NibbleByte(d[2]), NibbleByte(d[3]),
                                    IF n = 3 THEN 255 ELSE NibbleByte(d[4])))

\* a four-digit text with digits of both cases was parsed
C16_Witness ==
    /\ op = "parse"
    /\ trace = "input"
    /\ text = <<"#", "a", "F", "0", "9">>
    /\ res = Ok(NewColor(170, 255, 0, 153))


\* the text after '#' of a trimmed input that starts with '#'
IsHexInput(t) == trim(t) # <<>> /\ Head(trim(t)) = "#"

HexLengths == {3, 4, 6, 8}

HasNonHexDigit(s) == \E i \in 1..Len(s) : s[i] \notin HexDigitChars

\* the taxonomy for a text after '#': InvalidLength for a length other than
\* 3, 4, 6, 8 whatever the characters, InvalidHex for such a length with a
\* character that is no hex digit, and no other error
HexTaxonomy(rest) ==
    /\ Len(rest) \notin HexLengths => res = Err("InvalidLength")
    /\ (Len(rest) \in HexLengths /\ HasNonHexDigit(rest)) => res = Err("InvalidHex")
    /\ ~IsOk(res) => res.err \in {"InvalidLength", "InvalidHex"}

\* C17: hex error taxonomy: for the text after '#', a length other than 3,
\* 4, 6 or 8 always yields InvalidLength (whatever the characters are), and
\* a length of 3, 4, 6 or 8 containing any non-hex-digit character yields
\* InvalidHex; a hex input never yields any other error.
C17_HexErrorTaxonomy ==
    (op = "parse" /\ IsHexInput(text)) => HexTaxonomy(Tail(trim(text)))


----------------------------------------------------------------------------
(* Claims on the dispatch of parse_color *)

IsBlank(t) == \A i \in 1..Len(t) : t[i] \in WhiteSpace

\* t is name( ... ) with the name in any letter case
IsWrapped(t, name) ==
    /\ Len(t) >= Len(name) + 2
    /\ \A i \in 1..Len(name) : t[i] \in {name[i], to_ascii_uppercase_char(name[i])}
    /\ t[Len(name) + 1] = "("
    /\ t[Len(t)] = ")"

\* C18: top-level dispatch of parse_color: an empty or whitespace-only input
\* fails with Empty; a trimmed input that neither starts with '#' nor is
\* wrapped as rgb(...) or rgba(...) fails with InvalidFunc; leading and
\* trailing whitespace and the letter case of the function name never change
\* the result.
C18_TopLevelDispatch ==
    /\ (op = "parse" /\ trace = "input" /\ IsBlank(text)) => res = Err("Empty")
    /\ (/\ op = "parse"
        /\ ~IsBlank(text)
        /\ Head(trim(text)) # "#"
        /\ ~IsWrapped(trim(text), <<"r", "g", "b">>)
        /\ ~IsWrapped(trim(text), <<"r", "g", "b", "a">>))
       => res = Err("InvalidFunc")
    /\ \A b \in DispatchBases :
           (op = "parse" /\ text \in Variants(b)) => res = parse_color(b.name \o b.rest)

\* an rgba() text with capitals in the name and whitespace around was parsed
C18_Witness ==
    /\ op = "parse"
    /\ text = <<"\t", "\n", "R", "g", "b", "A", "(", "2", "5", "5", ",", "0", ",", "7", ",",
                "0", ".", "5", ")", "\r", " ">>
    /\ res = Ok(NewColor(255, 0, 7, 128))


----------------------------------------------------------------------------
(* Claims on the rgb() grammar *)

\* the pieces of s between the characters of seps
RECURSIVE Pieces(_, _, _)
Pieces(s, seps, cur) ==
    IF s = <<>> THEN <<cur>>
    ELSE IF Head(s) \in seps THEN <<cur>> \o Pieces(Tail(s), seps, <<>>)
    ELSE Pieces(Tail(s), seps, Append(cur, Head(s)))

\* the arguments of a text rgb( ... )
RgbArgs(t) == SubSeq(t, 5, Len(t) - 1)

\* t is rgb( ) around three lexemes of the table, separated by commas or by blanks
IsComponentText(t) ==
    /\ Len(t) >= 5
    /\ SubSeq(t, 1, 4) = <<"r", "g", "b", "(">>
    /\ t[Len(t)] = ")"
    /\ Len(Pieces(RgbArgs(t), {",", " "}, <<>>)) = 3
    /\ \A i \in 1..3 : Pieces(RgbArgs(t), {",", " "}, <<>>)[i] \in ComponentLexemes

\* the byte of a lexeme of the table, -1 outside the range
TableValue(l) == (CHOOSE e \in ComponentTable : e.lex = l).val

\* C19: colour-component resolution in rgb(): N% with 0 <= N <= 100
\* resolves to round(N/100*255), a bare integer in 0..255 to itself, a bare
\* decimal in [0,255] to its rounding; any numeric component outside its
\* range (256, 70000, -1, 255.4, 101%) makes parse_color fail with
\* OutOfRange and is never clamped into range.
C19_ComponentResolution ==
    (op = "parse" /\ IsComponentText(text))
    => LET c == Pieces(RgbArgs(text), {",", " "}, <<>>)
       IN  IF \E i \in 1..3 : TableValue(c[i]) = -1
           THEN res = Err("OutOfRange")
           ELSE res = Ok(NewColor(TableValue(c[1]), TableValue(c[2]), TableValue(c[3]), 255))

\* a text with a percentage, a decimal and an integer was parsed
C19_Witness ==
    /\ op = "parse"
    /\ text = Call(<<"r", "g", "b">>, Modern3(Pct(50), Point(254, 5), Dec(255)))
    /\ res = Ok(NewColor(128, 255, 255, 255))


\* p is written as one number: digits with an optional sign in front, at
\* most one point and an optional percent sign at the end
IsNumberLexeme(p) ==
    /\ p # <<>>
    /\ \A i \in 1..Len(p) : p[i] \in Digits \cup {"+", "-", ".", "%"}
    /\ \E i \in 1..Len(p) : p[i] \in Digits
    /\ \A i \in 2..Len(p) : p[i] \notin {"+", "-"}
    /\ \A i \in 1..(Len(p) - 1) : p[i] # "%"
    /\ Cardinality({i \in 1..Len(p) : p[i] = "."}) <= 1

\* the blank-separated pieces of the arguments of t, none for no arguments
ModernPieces(t) ==
    LET ps == Pieces(RgbArgs(t), {" "}, <<>>)
    IN  SelectSeq(ps, LAMBDA p : p # <<>>)

\* t is rgb( ) around blank-separated numbers and slashes
IsModernText(t) ==
    /\ Len(t) >= 5
    /\ SubSeq(t, 1, 4) = <<"r", "g", "b", "(">>
    /\ t[Len(t)] = ")"
    /\ \A i \in 1..Len(ModernPieces(t)) :
           ModernPieces(t)[i] = <<"/">> \/ IsNumberLexeme(ModernPieces(t)[i])

\* the arrangement of a modern text
KindsOf(t) ==
    [i \in 1..Len(ModernPieces(t)) |-> IF ModernPieces(t)[i] = <<"/">> THEN "/" ELSE "N"]

AcceptedKinds == {<<"N", "N", "N">>, <<"N", "N", "N", "/", "N">>}

\* C20: the modern (comma-free) rgb() grammar accepts exactly the token
\* sequences N N N and N N N / N: any other arrangement of number and slash
\* tokens (a number count other than 3 before the slash, a second slash, a
\* number after the alpha, a slash not followed by a number) is rejected
\* with an error and never yields a Color.
C20_ModernGrammar ==
    /\ (op = "parse" /\ IsModernText(text) /\ KindsOf(text) \notin AcceptedKinds) => ~IsOk(res)
    /\ (op = "parse" /\ text = Call(<<"r", "g", "b">>, JoinTokens(<<"N", "N", "N">>, 1)))
       => res = Ok(NewColor(255, 0, 7, 255))
    /\ (op = "parse" /\ text = Call(<<"r", "g", "b">>, JoinTokens(<<"N", "N", "N", "/", "N">>, 1)))
       => res = Ok(NewColor(255, 0, 7, 128))

\* three numbers, a slash and a number were parsed
C20_Witness ==
    /\ op = "parse"
    /\ text = <<"r", "g", "b", "(", "2", "5", "5", " ", "0", " ", "7", " ", "/", " ", "0", ".", "5", ")">>
    /\ res = Ok(NewColor(255, 0, 7, 128))


\* the pieces of the arguments of t between blanks, with every comma a piece of its own
LegacyPieces(t) ==
    LET spaced == [i \in 1..Len(RgbArgs(t)) |-> IF RgbArgs(t)[i] = "," THEN " " ELSE RgbArgs(t)[i]]
        commas == {i \in 1..Len(RgbArgs(t)) : RgbArgs(t)[i] = ","}
    IN  [numbers |-> SelectSeq(Pieces(spaced, {" "}, <<>>), LAMBDA p : p # <<>>),
         commas |-> Cardinality(commas),
         bytes |-> SelectSeq(RgbArgs(t), LAMBDA c : c # " ")]

\* t is rgb( ) around numbers and at least one comma
IsLegacyText(t) ==
    /\ Len(t) >= 5
    /\ SubSeq(t, 1, 4) = <<"r", "g", "b", "(">>
    /\ t[Len(t)] = ")"
    /\ LegacyPieces(t).commas >= 1
    /\ \A i \in 1..Len(LegacyPieces(t).numbers) : IsNumberLexeme(LegacyPieces(t).numbers[i])

\* the arguments without their blanks start with a comma, hold two commas
\* side by side, or end with a comma
HasStrayComma(t) ==
    LET b == LegacyPieces(t).bytes
    IN  \/ Head(b) = ","
        \/ b[Len(b)] = ","
        \/ \E i \in 1..(Len(b) - 1) : b[i] = "," /\ b[i + 1] = ","

\* C21: in the legacy grammar commas are strict separators between exactly
\* three colour components: an argument list with a leading comma, two
\* adjacent commas, or a trailing comma after the third component (as in
\* rgb(1,2,3,)) is rejected and never yields a Color.
C21_LegacyCommasAreSeparators ==
    (op = "parse" /\ IsLegacyText(text) /\ HasStrayComma(text)) => ~IsOk(res)


\* the bytes of an argument list that are whitespace or part of a token
LexicalBytes == WhiteSpace \cup Digits \cup {"+", "-", ".", "%", "/", ","}

\* t is rgb( ) around arguments with a byte that is neither
HasUnknownByte(t) ==
    /\ Len(t) >= 5
    /\ SubSeq(t, 1, 4) = <<"r", "g", "b", "(">>
    /\ t[Len(t)] = ")"
    /\ \E i \in 1..Len(RgbArgs(t)) : RgbArgs(t)[i] \notin LexicalBytes

\* C22: lexical errors are fatal and take precedence: if the argument text
\* of rgb(...) contains any byte that is not ASCII whitespace, a sign, a
\* digit, '.', '%', '/' or ',', parse_color fails with InvalidToken
\* regardless of how many components there are or whether they are in range.
C22_LexicalErrorsTakePrecedence ==
    (op = "parse" /\ HasUnknownByte(text)) => res = Err("InvalidToken")

\* an argument list with a component out of range and a letter at its end was parsed
C22_Witness ==
    /\ op = "parse"
    /\ text = <<"r", "g", "b", "(", "2", "5", "6", " ", "0", " ", "0", "x", ")">>
    /\ res = Err("InvalidToken")


\* C23: the error variant pinpoints the failing rule for alpha as well: a
\* lexically well-formed numeric alpha that lies neither in [0,1] nor among
\* the integers 0..255 (1.5, -0.5, 256, 101%) fails with the numeric-range
\* error OutOfRange, not with the lexical error InvalidToken or the
\* structural error InvalidFunc.
C23_AlphaOutOfRange ==
    \A r \in RedLexemes, g \in GreenLexemes, b \in BlueLexemes, a \in AlphaLexemes :
        (/\ op = "parse"
         /\ ~IsOk(OneAlphaRule(a))
         /\ \/ /\ text \in {Call(<<"r", "g", "b">>, Modern4(r, g, b, a)),
                            Call(<<"r", "g", "b">>, LegacySlash(r, g, b, a))}
               /\ ValidComponents(r, g, b)
            \/ /\ text = Call(<<"r", "g", "b", "a">>, Legacy4(r, g, b, a))
               /\ IsOk(parse_u8_strict(r)) /\ IsOk(parse_u8_strict(g)) /\ IsOk(parse_u8_strict(b)))
        => res = Err("OutOfRange")


----------------------------------------------------------------------------
(* Interpolation *)

\* lerp with the channels cast without rounding
lerp_NotRounded(self, o, t0) ==
    LET t == Clamp(t0, 0, ONE)
        lerp8(a, b) == AsU8(Floor(Fx(a) + Mul(Fx(b) - Fx(a), t)))
    IN  NewColor(lerp8(self.r, o.r), lerp8(self.g, o.g), lerp8(self.b, o.b), lerp8(self.a, o.a))

lerp(self, o, t0) ==
    LET t == Clamp(t0, 0, ONE)
        lerp8(a, b) == AsU8(Clamp(Round(Fx(a) + Mul(Fx(b) - Fx(a), t)), 0, 255))
    IN  NewColor(lerp8(self.r, o.r), lerp8(self.g, o.g), lerp8(self.b, o.b), lerp8(self.a, o.a))

\* chroma below which lerp_oklch treats an endpoint as grey: 1e-5
GreyChroma == 10

\* the two hues interpolated: a grey endpoint takes the hue of the other
lerp_oklch_hues(c1, h1, c2, h2) ==
    IF c1 < GreyChroma THEN <<h2, h2>>
    ELSE IF c2 < GreyChroma THEN <<h1, h1>>
    ELSE <<h1, h2>>

\* the hue delta without its second wrap step
lerp_oklch_dh_OneWrap(h1, h2) ==
    IF h2 - h1 > Fx(180) THEN h2 - h1 - Fx(360) ELSE h2 - h1

\* the hue delta after its two wrap steps
lerp_oklch_dh(h1, h2) ==
    LET dh0 == h2 - h1
        dh1 == IF dh0 > Fx(180) THEN dh0 - Fx(360) ELSE dh0
    IN  IF dh1 <= -Fx(180) THEN dh1 + Fx(360) ELSE dh1

\* the interpolated hue after its two wrap steps
lerp_oklch_h(h1, dh, t) ==
    LET h0 == h1 + Mul(dh, t)
        hw == IF h0 < 0 THEN h0 + Fx(360) ELSE h0
    IN  IF hw >= Fx(360) THEN hw - Fx(360) ELSE hw

\* the OKLCH triple handed to from_oklch, [l, c.max(0.0), h]
lerp_oklch_lch(lch1, lch2, hs, t) ==
    <<lch1[1] + Mul(lch2[1] - lch1[1], t),
      Max(lch1[2] + Mul(lch2[2] - lch1[2], t), 0),
      lerp_oklch_h(hs[1], lerp_oklch_dh(hs[1], hs[2]), t)>>

\* the interpolated alpha byte
lerp_alpha(a1, a2, t) == Quantize(Clamp(a1 + Mul(a2 - a1, t), 0, ONE))

\* the triple of lerp_oklch for two OKLCH endpoints
lerp_oklch_mix(lch1, lch2, t) ==
    lerp_oklch_lch(lch1, lch2, lerp_oklch_hues(lch1[2], lch1[3], lch2[2], lch2[3]), t)

lerp_oklch(self, o, t0) ==
    with_alpha(from_oklch(lerp_oklch_mix(into_oklch(self), into_oklch(o), Clamp(t0, 0, ONE))),
               lerp_alpha(Div(Fx(self.a), Fx(255)), Div(Fx(o.a), Fx(255)), Clamp(t0, 0, ONE)))

----------------------------------------------------------------------------
(* The interpolation specification: two Colors are interpolated by a factor. *)

\* the endpoints: greys, the primaries and their mixtures, translucent colours
LerpColors ==
    {BLACK, WHITE, TRANSPARENT, NewColor(128, 128, 128, 255),
     NewColor(255, 0, 0, 255), NewColor(0, 255, 0, 255), NewColor(0, 0, 255, 255),
     NewColor(255, 255, 0, 255), NewColor(0, 255, 255, 255), NewColor(255, 0, 255, 255),
     NewColor(200, 20, 130, 128), NewColor(10, 200, 250, 1)}

\* the factors: below 0, within [0,1], above 1, and the two infinities
Factors ==
    {-INF, -ONE, -1, 0, 1, 250000, 333333, 500000, 750000, ONE - 1, ONE, ONE + 1,
     2500000, INF}

InitLerp ==
    /\ col \in LerpColors
    /\ other \in LerpColors
    /\ factor \in Factors
    /\ mode = "Normal"
    /\ text = <<>>
    /\ lch = <<0, 0, 0>>
    /\ op = "new"
    /\ res = NoResult
    /\ trace = "-"

\* col.lerp(other, factor)
Lerp ==
    /\ op = "new"
    /\ res' = Ok(lerp(col, other, factor))
    /\ op' = "lerp"
    /\ UNCHANGED <<col, other, mode, text, lch, factor, trace>>

\* col.lerp_oklch(other, factor); lch keeps the triple handed to from_oklch
LerpOklch ==
    /\ op = "new"
    /\ lch' = lerp_oklch_mix(into_oklch(col), into_oklch(other), Clamp(factor, 0, ONE))
    /\ res' = Ok(lerp_oklch(col, other, factor))
    /\ op' = "lerp_oklch"
    /\ UNCHANGED <<col, other, mode, text, factor, trace>>

NextLerp == Lerp \/ LerpOklch

SpecLerp == InitLerp /\ [][NextLerp]_vars

----------------------------------------------------------------------------
(* Claims on interpolation *)

Between(x, lo, hi) == Min(lo, hi) <= x /\ x <= Max(lo, hi)

\* round(a + (b - a) * t) for bytes a, b and a factor t in [0,1] given in millionths
RoundedMix(a, b, t) == (a * ONE + (b - a) * t + (ONE \div 2)) \div ONE

Channels == {"r", "g", "b", "a"}

\* C24: lerp clamps its factor and interpolates each of the four encoded
\* channels independently: lerp(a, b, t) equals a for every t <= 0 and b
\* for every t >= 1, and for every t each result channel equals
\* round(a_ch + (b_ch - a_ch) * clamp(t, 0, 1)) and therefore lies between
\* the corresponding channels of a and b.
C24_LerpClampsAndMixes ==
    op = "lerp" =>
        /\ factor <= 0 => res = Ok(col)
        /\ factor >= ONE => res = Ok(other)
        /\ \A ch \in Channels :
               /\ Unwrap(res)[ch] = RoundedMix(col[ch], other[ch], Clamp(factor, 0, ONE))
               /\ Between(Unwrap(res)[ch], col[ch], other[ch])

\* two translucent colours were interpolated a third of the way
C24_Witness ==
    /\ op = "lerp"
    /\ col = NewColor(200, 20, 130, 128)
    /\ other = NewColor(10, 200, 250, 1)
    /\ factor = 333333
    /\ res = Ok(NewColor(137, 80, 170, 86))


IsHue(h) == 0 <= h /\ h < Fx(360)

IsShortestDelta(dh) == -Fx(180) < dh /\ dh <= Fx(180)

\* the hue path from the OKLCH endpoints p1, p2 at the clamped factor t to the hue h
HuePath(p1, p2, t, h) ==
    LET e == lerp_oklch_hues(p1[2], p1[3], p2[2], p2[3])
        dh == lerp_oklch_dh(e[1], e[2])
    IN  /\ IsHue(p1[3]) /\ IsHue(p2[3])
        /\ IsShortestDelta(lerp_oklch_dh(p1[3], p2[3]))
        /\ IsShortestDelta(dh)
        /\ (dh - (p2[3] - p1[3])) % Fx(360) = 0 \/ p1[2] < GreyChroma \/ p2[2] < GreyChroma
        /\ p1[2] < GreyChroma => (e = <<p2[3], p2[3]>> /\ dh = 0)
        /\ (p1[2] >= GreyChroma /\ p2[2] < GreyChroma) => (e = <<p1[3], p1[3]>> /\ dh = 0)
        /\ IsHue(h)
        /\ (h - (e[1] + Mul(dh, t))) % Fx(360) = 0

\* C25: lerp_oklch takes the shortest hue path: for any two endpoint hues
\* in [0,360) the wrapped delta lies in (-180, 180], and for every factor t
\* in [0,1] the interpolated hue h1 + delta*t after the single wrap step
\* lies in [0,360); when either endpoint has chroma below 1e-5 both hues
\* are replaced by the other endpoint's hue so the delta is 0.
C25_ShortestHuePath ==
    op = "lerp_oklch" => HuePath(into_oklch(col), into_oklch(other), Clamp(factor, 0, ONE), lch[3])

\* red and blue, more than 180 degrees apart, were interpolated half way
\* through the hues below red
C25_Witness ==
    /\ op = "lerp_oklch"
    /\ col = NewColor(255, 0, 0, 255)
    /\ other = NewColor(0, 0, 255, 255)
    /\ factor = 500000
    /\ lch[3] > Fx(300)
    /\ IsOk(res)


----------------------------------------------------------------------------
(* The saturation specification: set_sat is applied to a triple.  lch      *)
(* holds the triple c and factor the saturation s.                         *)

\* channel values of the triples
SatLevels == {0, 200000, 500000, 800000, ONE}

\* the saturations set
Saturations == {0, 100000, 300000, 500000, ONE}

InitSat ==
    /\ lch \in SatLevels \X SatLevels \X SatLevels
    /\ factor \in Saturations
    /\ col = TRANSPARENT
    /\ other = TRANSPARENT
    /\ mode = "Normal"
    /\ text = <<>>
    /\ op = "new"
    /\ res = NoResult
    /\ trace = "-"

\* Color::set_sat(lch, factor)
SetSat ==
    /\ op = "new"
    /\ res' = Ok(set_sat(lch, factor))
    /\ op' = "set_sat"
    /\ UNCHANGED <<col, other, mode, text, lch, factor, trace>>

NextSat == SetSat

SpecSat == InitSat /\ [][NextSat]_vars

\* rounding allowed between max - min and s, in millionths
SatTolerance == 10

\* the order <<max, mid, min>> of the channels of c with the earlier channel
\* taken on a tie, first for the maximum and then for the minimum
EarlierFirstOrder(c) ==
    LET mx == CHOOSE i \in 1..3 : c[i] = Max3(c) /\ \A j \in 1..(i - 1) : c[j] < c[i]
        rest == (1..3) \ {mx}
        mn == CHOOSE i \in rest : \A j \in rest : c[i] < c[j] \/ (c[i] = c[j] /\ i <= j)
    IN  <<mx, CHOOSE i \in rest : i # mn, mn>>

\* C26: set_sat(c, s) on a triple with non-zero chroma returns a triple
\* whose max minus min equals s and whose channels keep the relative order
\* of c's channels, choosing max/mid/min on ties by favouring the earlier
\* channel in R, G, B order; on a triple with zero chroma it returns (0,0,0).
C26_SetSat ==
    op = "set_sat" =>
        LET out == Unwrap(res)
        IN  IF sat(lch) = 0 THEN out = <<0, 0, 0>>
            ELSE /\ Abs(sat(out) - factor) <= SatTolerance
                 /\ \A i, j \in 1..3 : lch[i] <= lch[j] => out[i] <= out[j]
                 /\ SatOrder(lch) = EarlierFirstOrder(lch)
                 /\ out[SatOrder(lch)[1]] = Max3(out)
                 /\ out[SatOrder(lch)[3]] = Min3(out)

\* a triple with three different channels was given the saturation 1
C26_Witness ==
    /\ op = "set_sat"
    /\ lch = <<800000, 200000, 500000>>
    /\ factor = ONE
    /\ Unwrap(res)[2] < Unwrap(res)[3]
    /\ Unwrap(res)[3] < Unwrap(res)[1]


----------------------------------------------------------------------------
(* The scan specification: the loop of tokenize runs one iteration at a    *)
(* time over text.  While op = "scan", res holds the loop state: the index *)
(* i (1-based, so i - 1 is the byte index of the code) and the tokens.     *)

\* longest input scanned
MaxScanLen == 4

\* a digit, the characters of a number, a blank, a slash and an unknown byte
ScanBytes == {"1", ".", "-", "%", " ", "/", "x"}

ScanInputs == UNION {[1..n -> ScanBytes] : n \in 0..MaxScanLen}

ScanState(i, tokens) == Ok([i |-> i, tokens |-> tokens])

\* let mut tokens = Vec::new(); let mut i = 0;
InitScan ==
    /\ text \in ScanInputs
    /\ op = "scan"
    /\ res = ScanState(1, <<>>)
    /\ col = TRANSPARENT
    /\ other = TRANSPARENT
    /\ mode = "Normal"
    /\ lch = <<0, 0, 0>>
    /\ factor = 0
    /\ trace = "-"

\* one iteration of while i < bytes.len(): a step to the next index, or
\* return Err(InvalidToken)
ScanStep ==
    /\ op = "scan"
    /\ Unwrap(res).i <= Len(text)
    /\ LET st == TokenStep(text, Unwrap(res).i, Unwrap(res).tokens)
       IN  IF st.err
           THEN res' = Err("InvalidToken") /\ op' = "done"
           ELSE res' = ScanState(st.i, st.tokens) /\ op' = "scan"
    /\ UNCHANGED <<col, other, mode, text, lch, factor, trace>>

\* the loop condition fails: Ok(tokens)
ScanEnd ==
    /\ op = "scan"
    /\ Unwrap(res).i > Len(text)
    /\ op' = "done"
    /\ UNCHANGED <<col, other, mode, text, lch, factor, res, trace>>

NextScan == ScanStep \/ ScanEnd

SpecScan == InitScan /\ [][NextScan]_vars /\ WF_vars(NextScan)

\* s is a non-empty slice of t
IsSliceOf(s, t) ==
    s # <<>> /\ \E k \in 1..Len(t) : k + Len(s) - 1 <= Len(t) /\ SubSeq(t, k, k + Len(s) - 1) = s

\* the index is within the input or just behind it, and every Number
\* lexeme is a non-empty slice of the input
ScanInBounds ==
    IsOk(res) =>
        /\ Unwrap(res).i \in 1..(Len(text) + 1)
        /\ \A k \in 1..Len(Unwrap(res).tokens) :
               Unwrap(res).tokens[k].kind = "Number"
                   => IsSliceOf(Unwrap(res).tokens[k].lexeme, text)

\* an iteration that does not return moves the index forward
ScanAdvances == (op = "scan" /\ op' = "scan") => Unwrap(res').i >= Unwrap(res).i + 1

\* C27: tokenize terminates on every input: each iteration of its scan loop
\* either returns InvalidToken or strictly increases the byte index by at
\* least one, the index never exceeds the input length, and every Number
\* lexeme is a non-empty slice of the input.
C27_TokenizeTerminates ==
    /\ []ScanInBounds
    /\ [][ScanAdvances]_vars
    /\ <>(op = "done")

\* the scan of a text with two numbers side by side ended with both tokens
C27_Witness ==
    /\ op = "done"
    /\ text = <<"1", ".", "1", ".">>
    /\ IsOk(res)
    /\ Len(Unwrap(res).tokens) = 2
    /\ Unwrap(res).i = 5


----------------------------------------------------------------------------
(* The alpha specification: a source and a backdrop are drawn over a range *)
(* of alphas, with a blend mode, and composited.                           *)

\* the alphas drawn: both ends, their neighbours, the middle and values between
AlphaLevels == {0, 1, 2, 51, 64, 127, 128, 129, 200, 253, 254, 255}

WithAlpha(c, a) == NewColor(c.r, c.g, c.b, a)

InitAlpha ==
    /\ factor = 0
    /\ col \in {WithAlpha(c, a) : c \in {NewColor(230, 90, 160, 255), BLACK}, a \in AlphaLevels}
    /\ other \in {WithAlpha(NewColor(10, 20, 30, 255), a) : a \in AlphaLevels}
    /\ mode \in BlendMode
    /\ text = <<>>
    /\ lch = <<0, 0, 0>>
    /\ op = "new"
    /\ res = NoResult
    /\ trace = "-"

NextAlpha == Over \/ BlendOver

SpecAlpha == InitAlpha /\ [][NextAlpha]_vars

\* round(srcA + bgA - srcA * bgA) on the 0..255 scale, in whole numbers:
\* (255 * s + 255 * d - s * d) / 255 rounded to the nearest
UnionAlpha(s, d) == (2 * (255 * s + 255 * d - s * d) + 255) \div (2 * 255)

\* C28: the alpha of blend_over(src, bg, mode) is that of over(src, bg)
\* whatever the mode, it is round(srcA + bgA - srcA * bgA) on the 0..255
\* scale, and it is at least the larger of the two alphas.
C28_BlendAlphaIgnoresMode ==
    op = "blend_over" =>
        /\ Unwrap(res).a = over(col, other).a
        /\ Unwrap(res).a = UnionAlpha(col.a, other.a)
        /\ Unwrap(res).a >= Max(col.a, other.a)

\* C28 witness: a non-separable mode on the general path with two
\* translucent colours
C28_Witness ==
    /\ op = "blend_over"
    /\ trace = "blend"
    /\ mode = "Hue"
    /\ col.a = 127
    /\ other.a = 129
    /\ Unwrap(res).a = 192


----------------------------------------------------------------------------
(* Claims on the HSLA conversions *)

\* C29: into_hsla and from_hsla use the same units and are mutual inverses:
\* for every Color c, from_hsla(into_hsla(c)) reproduces the colour channels
\* of c within 1 and its alpha exactly.
C29_HslaRoundTrip ==
    op = "from_hsla" =>
        /\ Abs(Unwrap(res).r - col.r) <= 1
        /\ Abs(Unwrap(res).g - col.g) <= 1
        /\ Abs(Unwrap(res).b - col.b) <= 1
        /\ Unwrap(res).a = col.a


----------------------------------------------------------------------------
(* Claims on numbers written without a separator *)

\* s is written as one number: an optional sign, digits with at most one
\* point, an optional percent sign; it starts with a sign, a digit or a point
IsNumberShape(s) ==
    /\ s # <<>>
    /\ s[1] # "%"
    /\ LET a == IF s[1] \in {"+", "-"} THEN 2 ELSE 1
           b == IF Len(s) >= a /\ s[Len(s)] = "%" THEN Len(s) - 1 ELSE Len(s)
       IN  /\ \A i \in a..b : s[i] \in Digits \cup {"."}
           /\ Cardinality({i \in a..b : s[i] = "."}) <= 1

\* the length of the longest number s starts with: the number ends at the
\* first byte that cannot extend it; 0 when s starts with no number
LongestNumber(s) ==
    LET ns == {n \in 1..Len(s) : IsNumberShape(SubSeq(s, 1, n))}
    IN  IF ns = {} THEN 0 ELSE CHOOSE n \in ns : \A k \in ns : k <= n

\* the numbers of s, each the longest one at its place, blanks skipped;
\* an empty number marks a place where no number starts
RECURSIVE NumberSplitAt(_, _)
NumberSplitAt(s, n) ==
    IF s = <<>> THEN <<>>
    ELSE IF Head(s) = " " THEN NumberSplitAt(Tail(s), LongestNumber(Tail(s)))
    ELSE IF n = 0 THEN << <<>> >>
    ELSE <<SubSeq(s, 1, n)>>
         \o NumberSplitAt(SubSeq(s, n + 1, Len(s)), LongestNumber(SubSeq(s, n + 1, Len(s))))

NumberSplit(s) == NumberSplitAt(s, LongestNumber(s))

\* t is rgb( ) around signs, digits, points, percent signs and blanks only
IsAdjacentText(t) ==
    /\ Len(t) >= 5
    /\ SubSeq(t, 1, 4) = <<"r", "g", "b", "(">>
    /\ t[Len(t)] = ")"
    /\ \A i \in 5..(Len(t) - 1) : t[i] \in Digits \cup {"+", "-", ".", "%", " "}
    /\ \A k \in 1..Len(NumberSplit(RgbArgs(t))) : NumberSplit(RgbArgs(t))[k] # <<>>

\* the numbers ns written with one blank between them
RECURSIVE Spaced(_)
Spaced(ns) ==
    IF ns = <<>> THEN <<>>
    ELSE IF Len(ns) = 1 THEN ns[1]
    ELSE ns[1] \o <<" ">> \o Spaced(Tail(ns))

\* C30: the tokenizer requires no separator between numbers: a Number token
\* ends at the first byte that cannot extend it, so a text is read as the
\* same text with its numbers set apart by blanks, and rgb(1.2.3 4), split
\* into 1.2, .3 and 4, is accepted as the colour (1, 0, 4, 255).
C30_NoSeparatorBetweenNumbers ==
    (op = "parse" /\ IsAdjacentText(text)) =>
        /\ tokenize(RgbArgs(text))
             = Ok([k \in 1..Len(NumberSplit(RgbArgs(text))) |->
                      Number(NumberSplit(RgbArgs(text))[k])])
        /\ res = parse_color(Call(<<"r", "g", "b">>, Spaced(NumberSplit(RgbArgs(text)))))
        /\ text = <<"r", "g", "b", "(", "1", ".", "2", ".", "3", " ", "4", ")">>
               => res = Ok(NewColor(1, 0, 4, 255))

\* C30 witness: rgb(1.2.3 4) was parsed into a colour
C30_Witness ==
    /\ op = "parse"
    /\ text = <<"r", "g", "b", "(", "1", ".", "2", ".", "3", " ", "4", ")">>
    /\ NumberSplit(RgbArgs(text)) = << <<"1", ".", "2">>, <<".", "3">>, <<"4">> >>
    /\ res = Ok(NewColor(1, 0, 4, 255))

====
